---- MODULE Spec2Model ----
(***************************************************************************)
(* Model of src/main.py: the prompt queue kept in a spreadsheet, the TTL   *)
(* cache (SheetsCache) and the sliding-window RateLimiter in front of it,  *)
(* and the handlers get_next_prompt, mark_prompt_locked,                   *)
(* clear_prompt_mark, mark_prompt_used and insert_prompts.                 *)
(*                                                                         *)
(* Time is the integer reading of time.time().  Cell values are strings,   *)
(* as the Sheets API returns them; a numeric cell is its decimal string.   *)
(***************************************************************************)
EXTENDS Integers, Sequences, FiniteSets, TLC

VARIABLES
    now,        \* time.time()
    cache,      \* sheets_cache.cache : key -> [data, timestamp]
    requests,   \* rate_limiter.requests : admitted timestamps still retained
    lastSet,    \* history: per key, the last set() not invalidated since
    admitted,   \* history: every timestamp acquire() ever appended
    waiting,    \* per task suspended in acquire(): the time its sleep ends, else -1
    headers,    \* row 1 of the sheet
    rows,       \* the data rows of the sheet, physical rows 2, 3, ...: each a tuple of cells
    writable,   \* the store takes writes; when not, batchUpdate and append raise
    pending,    \* per task: the frame of its insert_prompts suspended in acquire(), else <<>>
    resp        \* the last call and what it returned

vars == <<now, cache, requests, lastSet, admitted, waiting, headers, rows, writable, pending, resp>>

\* ------------------------------------------------------------------ bounds
\* A handler returns by MaxTime: its sleeps in acquire() end by then.
MaxTime == 12
\* The clock of the cache and of the limiter on their own stops at MaxTick.
MaxTick == 4
\* SheetsCache(ttl=300), scaled to the clock of the model.
ttl == 2
\* RateLimiter(max_requests=80, window=100), scaled to the clock of the model.
max_requests == 2
window == 2
\* Concurrent callers of acquire().
NTasks == 2
\* Data rows of the sheet.
MaxRows == 3
\* Data rows of the sheet where the header layout varies.
LayoutRows == 2
\* Columns between keyword1 and used in the wide layout: used lies beyond column Z.
FillerCols == 21
\* The greatest column index col_idx_to_a1 is called with: 701 is ZZ, 702 is AAA.
MaxColIdx == 704
\* Keyword columns, and data rows, of the sheet get_next_prompt derives keywords from.
KeywordColumns == 11
KeywordRows == 2
\* The clock of the handlers running together stops at MaxClock; their sheets
\* start with up to HandlerRows data rows.
MaxClock == 6
HandlerRows == 2
\* A client's cycle over the whole sheet ends by MaxCycleTime.
MaxCycleTime == 60

Tasks == 1..NTasks

\* ------------------------------------------------------------------ helpers
Range(s) == {s[i] : i \in DOMAIN s}

Max2(a, b) == IF a >= b THEN a ELSE b

\* Python's `pattern in k` on strings.
Contains(pattern, k) ==
    \E i \in 1..(Len(k) - Len(pattern) + 1) : SubSeq(k, i, i + Len(pattern) - 1) = pattern

SPREADSHEET_ID == "1bwj"
SHEET_NAME == "prompts"
MetadataKey == "metadata_" \o SPREADSHEET_ID \o "_" \o SHEET_NAME
UnusedKey == "unused_rows_" \o SPREADSHEET_ID \o "_" \o SHEET_NAME

\* ------------------------------------------------------------------ strings
LowerAlpha == "abcdefghijklmnopqrstuvwxyz"
UpperAlpha == "ABCDEFGHIJKLMNOPQRSTUVWXYZ"
Digits == "0123456789"

CharAt(s, i) == SubSeq(s, i, i)

\* The 1-based place of character ch in alpha, 0 when it is not there.
IndexIn(alpha, ch) ==
    IF \E i \in 1..Len(alpha) : CharAt(alpha, i) = ch
    THEN CHOOSE i \in 1..Len(alpha) : CharAt(alpha, i) = ch
    ELSE 0

\* The strings the cells and headers of the model hold: the conversions below
\* are computed once for these and character by character for any other.
Vocab ==
    {"", " ", "LOCKED", "locked", "FAILED", "failed", "yes", "YES", "Yes", "A", "B", "a", "b",
     "L0", "L1", "L2", "rowId", "topic", "prompt", "title", "used", "log_id", "timestamp",
     "keyword1", "keyword2", "keyword3", "Keyword1", "a cute cat", "a big dog", "dog",
     "cute", "cat", "big"}
    \cup {ToString(i) : i \in 0..9}

RECURSIVE UpperOf(_)
UpperOf(s) ==
    IF s = "" THEN ""
    ELSE LET i == IndexIn(LowerAlpha, CharAt(s, 1))
         IN  (IF i > 0 THEN CharAt(UpperAlpha, i) ELSE CharAt(s, 1)) \o UpperOf(SubSeq(s, 2, Len(s)))
UpperMemo == [s \in Vocab |-> UpperOf(s)]
\* str.upper()
Upper(s) == IF s \in Vocab THEN UpperMemo[s] ELSE UpperOf(s)

RECURSIVE LowerOf(_)
LowerOf(s) ==
    IF s = "" THEN ""
    ELSE LET i == IndexIn(UpperAlpha, CharAt(s, 1))
         IN  (IF i > 0 THEN CharAt(LowerAlpha, i) ELSE CharAt(s, 1)) \o LowerOf(SubSeq(s, 2, Len(s)))
LowerMemo == [s \in Vocab |-> LowerOf(s)]
\* str.lower()
Lower(s) == IF s \in Vocab THEN LowerMemo[s] ELSE LowerOf(s)

RECURSIVE StripOf(_)
StripOf(s) ==
    IF s = "" THEN ""
    ELSE IF CharAt(s, 1) = " " THEN StripOf(SubSeq(s, 2, Len(s)))
    ELSE IF CharAt(s, Len(s)) = " " THEN StripOf(SubSeq(s, 1, Len(s) - 1))
    ELSE s
StripMemo == [s \in Vocab |-> StripOf(s)]
\* str.strip(), for the blank
Strip(s) == IF s \in Vocab THEN StripMemo[s] ELSE StripOf(s)

\* str.startswith
StartsWith(s, prefix) == Len(s) >= Len(prefix) /\ SubSeq(s, 1, Len(prefix)) = prefix

\* int(s) succeeds: a decimal numeral (blanks around it are allowed by int()).
IsIntOf(s) ==
    LET t == Strip(s)
    IN  t # "" /\ \A i \in 1..Len(t) : IndexIn(Digits, CharAt(t, i)) > 0
IsIntMemo == [s \in Vocab |-> IsIntOf(s)]
IsInt(s) == IF s \in Vocab THEN IsIntMemo[s] ELSE IsIntOf(s)

RECURSIVE IntOfDigits(_)
IntOfDigits(t) ==
    IF t = "" THEN 0
    ELSE 10 * IntOfDigits(SubSeq(t, 1, Len(t) - 1)) + (IndexIn(Digits, CharAt(t, Len(t))) - 1)
IntMemo == [s \in Vocab |-> IntOfDigits(StripOf(s))]
\* int(s)
IntOf(s) == IF s \in Vocab THEN IntMemo[s] ELSE IntOfDigits(Strip(s))

\* datetime.now(...).strftime("%Y-%m-%d %H:%M:%S")
FormatTime(t) == "T" \o ToString(t)

\* ------------------------------------------------------------------ column letters
RECURSIVE A1Letters(_)
A1Letters(n) ==
    IF n > 0
    THEN A1Letters((n - 1) \div 26) \o CharAt(UpperAlpha, ((n - 1) % 26) + 1)
    ELSE ""

RECURSIVE A1Digits(_)
\* The letters of n in plain base 26, A for the digit 0.
A1Digits(n) ==
    IF n < 26 THEN CharAt(UpperAlpha, n + 1)
    ELSE A1Digits(n \div 26) \o CharAt(UpperAlpha, (n % 26) + 1)

\* col_idx_to_a1 in plain base 26: 26 -> BA in place of AA.
col_idx_to_a1_plain(col_idx_zero_based) == A1Digits(col_idx_zero_based)
\* col_idx_to_a1: 0 -> A, 25 -> Z, 26 -> AA ...
col_idx_to_a1(col_idx_zero_based) == A1Letters(col_idx_zero_based + 1)

\* chr(ord('A') + i): a letter only below 26 ("[" is what follows "Z")
ChrA(i) == IF i < 26 THEN CharAt(UpperAlpha, i + 1) ELSE "["

RECURSIVE A1Number(_)
A1Number(letters) ==
    IF letters = "" THEN 0
    ELSE 26 * A1Number(SubSeq(letters, 1, Len(letters) - 1))
         + IndexIn(UpperAlpha, CharAt(letters, Len(letters)))

A1ColOf(letters) ==
    IF letters # "" /\ \A i \in 1..Len(letters) : IndexIn(UpperAlpha, CharAt(letters, i)) > 0
    THEN A1Number(letters) - 1
    ELSE -1
A1ColMemo == [l \in {CharAt(UpperAlpha, i) : i \in 1..26} |-> A1ColOf(l)]
\* The store's reading of the column letters of a range: the zero-based
\* column, -1 when they are no column letters.
A1Col(letters) == IF letters \in DOMAIN A1ColMemo THEN A1ColMemo[letters] ELSE A1ColOf(letters)

\* ------------------------------------------------------------------ the remote store
\* The header layout the service documents.
DocHeaders == <<"rowId", "topic", "prompt", "title", "keyword1", "used", "log_id", "timestamp">>

RECURSIVE TrimRow(_)
\* values.get leaves out the trailing empty cells of a row ...
TrimRow(r) ==
    IF r = <<>> THEN <<>>
    ELSE IF r[Len(r)] = "" THEN TrimRow(SubSeq(r, 1, Len(r) - 1))
    ELSE r

RECURSIVE TrimRows(_)
\* ... and the trailing empty rows of a range.
TrimRows(rs) ==
    IF rs = <<>> THEN <<>>
    ELSE IF rs[Len(rs)] = <<>> THEN TrimRows(SubSeq(rs, 1, Len(rs) - 1))
    ELSE rs

\* The grid: the header row, then the data rows.
Grid(sh) == <<sh.headers>> \o sh.rows

\* gridProperties.rowCount
GridRowCount(sh) == 1 + Len(sh.rows)

\* values.get(range = <c0><r0>:<c1><r1>), columns zero-based, rows as numbered in the sheet.
ValuesGet(sh, c0, r0, c1, r1) ==
    LET g == Grid(sh)
        last == IF r1 < Len(g) THEN r1 ELSE Len(g)
    IN  TrimRows([i \in 1..Max2(0, last - r0 + 1) |->
                    TrimRow(SubSeq(g[i + r0 - 1], c0 + 1, c1 + 1))])

\* values.get(range = SHEET_NAME): the whole sheet.
ValuesGetAll(sh) == ValuesGet(sh, 0, 1, Len(sh.headers) - 1, GridRowCount(sh))

\* ------------------------------------------------------------------ SheetsCache
\* A dict as a function on the set of its keys.
DictSet(d, k, v) == [x \in DOMAIN d \cup {k} |-> IF x = k THEN v ELSE d[x]]
DictDel(d, ks) == [x \in DOMAIN d \ ks |-> d[x]]
EmptyDict == [x \in {} |-> 0]

\* Fresh with the bound included: an entry exactly ttl old would still be served.
Fresh_le(entry, t) == t - entry.timestamp <= ttl
\* time.time() - timestamp < self.ttl
Fresh(entry, t) == t - entry.timestamp < ttl

\* get(key): the data (wrapped in a 1-tuple; <<>> is None) and the cache after it.
SheetsCache_get(c, key, t) ==
    IF key \in DOMAIN c
    THEN IF Fresh(c[key], t)
         THEN [hit |-> TRUE, data |-> <<c[key].data>>, cache |-> c]
         ELSE [hit |-> FALSE, data |-> <<>>, cache |-> DictDel(c, {key})]
    ELSE [hit |-> FALSE, data |-> <<>>, cache |-> c]

SheetsCache_set(c, key, data, t) == DictSet(c, key, [data |-> data, timestamp |-> t])

\* invalidate(pattern): pattern "" stands for None (both are falsy in `if pattern`).
SheetsCache_invalidate(c, pattern) ==
    IF pattern # ""
    THEN DictDel(c, {k \in DOMAIN c : Contains(pattern, k)})
    ELSE EmptyDict

\* ------------------------------------------------------------------ RateLimiter
\* [req_time for req_time in self.requests if now - req_time < self.window]
Prune(reqs, t) == SelectSeq(reqs, LAMBDA r : t - r < window)

\* AtBudget off by one: the sleep would start one admission too late.
AtBudget_gt(reqs) == Len(reqs) > max_requests
\* len(self.requests) >= self.max_requests
AtBudget(reqs) == Len(reqs) >= max_requests

\* wait_time = self.window - (now - self.requests[0]) + 1
WaitTime(reqs, t) == window - (t - reqs[1]) + 1

\* ------------------------------------------------------------------ one handler at a time
\* What a handler threads through its calls: the cache, the limiter's log, the
\* clock, what it has cost so far (acquire() admissions, remote calls,
\* batchUpdate calls), and whether the store will raise on its write.
Env ==
    [cache |-> cache, requests |-> requests, now |-> now, acq |-> 0, rem |-> 0, batches |-> 0,
     refuse |-> ~writable]
Sheet == [headers |-> headers, rows |-> rows]

RECURSIVE RateLimiter_acquire(_, _)
\* acquire() with no other task running: the sleep only moves the clock.
RateLimiter_acquire(reqs, t) ==
    LET kept == Prune(reqs, t)
    IN  IF AtBudget(kept)
        THEN RateLimiter_acquire(kept, t + WaitTime(kept, t))
        ELSE [requests |-> Append(kept, t), now |-> t]

Acquire(e) ==
    LET a == RateLimiter_acquire(e.requests, e.now)
    IN  [e EXCEPT !.requests = a.requests, !.now = a.now, !.acq = @ + 1]

Remote(e) == [e EXCEPT !.rem = @ + 1]

\* {h: i for i, h in enumerate(headers)}: a later duplicate wins.
IdxMap(hdrs) ==
    [h \in Range(hdrs) |-> (CHOOSE i \in 1..Len(hdrs) :
                                hdrs[i] = h /\ \A j \in (i + 1)..Len(hdrs) : hdrs[j] # h) - 1]

Missing(required, idx_map) == {c \in Range(required) : c \notin DOMAIN idx_map}

\* get_sheet_metadata(): the cached metadata, else one acquire() and two remote
\* calls (the first two rows, then the sheet properties).
get_sheet_metadata(e, sh) ==
    LET Put(e2, metadata) ==
            IF Missing(<<"rowId", "topic", "prompt", "used">>, metadata.idx_map) # {}
            THEN [ok |-> FALSE, e |-> e2, status |-> 500]
            ELSE [ok |-> TRUE,
                  e |-> [e2 EXCEPT !.cache = SheetsCache_set(@, MetadataKey, metadata, e2.now)],
                  val |-> metadata]
        Fetch(e1, values) ==
            IF values = <<>>
            THEN [ok |-> FALSE, e |-> e1, status |-> 500]
            ELSE Put(Remote(e1),
                     [headers |-> values[1], idx_map |-> IdxMap(values[1]),
                      row_count |-> GridRowCount(sh)])
        Got(g) ==
            IF g.hit
            THEN [ok |-> TRUE, e |-> [e EXCEPT !.cache = g.cache], val |-> g.data[1]]
            ELSE Fetch(Remote(Acquire([e EXCEPT !.cache = g.cache])),
                       ValuesGet(sh, 0, 1, Len(sh.headers) - 1, 2))
    IN  Got(SheetsCache_get(e.cache, MetadataKey, e.now))

\* get_cell(row, col_name) of get_unused_rows_by_topic
get_cell(idx_map, row, col_name) ==
    IF col_name \notin DOMAIN idx_map THEN ""
    ELSE IF idx_map[col_name] >= Len(row) THEN ""
    ELSE Strip(row[idx_map[col_name] + 1])

\* Counted without the test of the used cell: the grouping would keep the used rows.
Counted_all(idx_map, row) ==
    /\ row # <<>>
    /\ get_cell(idx_map, row, "topic") # ""
\* The rows the grouping keeps: not empty, used not "yes", a topic.
Counted(idx_map, row) ==
    /\ row # <<>>
    /\ Lower(get_cell(idx_map, row, "used")) # "yes"
    /\ get_cell(idx_map, row, "topic") # ""

\* row_data: it has no "used" entry.
RowData(idx_map, row, row_idx) ==
    LET rid == get_cell(idx_map, row, "rowId")
    IN  [row_idx |-> row_idx,
         rowId |-> IF rid = "" THEN 0 ELSE IntOf(rid),
         topic |-> get_cell(idx_map, row, "topic"),
         prompt |-> get_cell(idx_map, row, "prompt"),
         title |-> get_cell(idx_map, row, "title")]

\* unused_by_topic as the list of its (topic, rows) items, in insertion order.
GroupAdd(groups, rd) ==
    IF \E j \in 1..Len(groups) : groups[j].topic = rd.topic
    THEN [j \in 1..Len(groups) |->
            IF groups[j].topic = rd.topic
            THEN [groups[j] EXCEPT !.rows = Append(@, rd)]
            ELSE groups[j]]
    ELSE Append(groups, [topic |-> rd.topic, rows |-> <<rd>>])

RECURSIVE GroupRows(_, _, _)
\* for row_idx, row in enumerate(values, start=2), up to the n-th row
GroupRows(idx_map, values, n) ==
    IF n = 0 THEN <<>>
    ELSE LET before == GroupRows(idx_map, values, n - 1)
         IN  IF Counted(idx_map, values[n])
             THEN GroupAdd(before, RowData(idx_map, values[n], n + 1))
             ELSE before

\* get_unused_rows_by_topic()
get_unused_rows_by_topic(e, sh) ==
    LET Store(e2, unused_by_topic) ==
            [ok |-> TRUE,
             e |-> [e2 EXCEPT !.cache = SheetsCache_set(@, UnusedKey, unused_by_topic, e2.now)],
             val |-> unused_by_topic]
        Group(e2, idx_map, values) ==
            IF \E n \in 1..Len(values) :
                  /\ Counted(idx_map, values[n])
                  /\ get_cell(idx_map, values[n], "rowId") # ""
                  /\ ~IsInt(get_cell(idx_map, values[n], "rowId"))
            THEN [ok |-> FALSE, e |-> e2, status |-> 500]
            ELSE Store(e2, GroupRows(idx_map, values, Len(values)))
        Read(m, e1, last_col) ==
            IF last_col < 0
            THEN [ok |-> FALSE, e |-> Remote(e1), status |-> 500]
            ELSE Group(Remote(e1), m.val.idx_map, ValuesGet(sh, 0, 2, last_col, m.val.row_count))
        LastCol(m, idxs) == A1Col(ChrA(CHOOSE i \in idxs : \A j \in idxs : j <= i))
        Cols(m, cols_needed) ==
            Read(m, Acquire(m.e),
                 LastCol(m, {m.val.idx_map[c] : c \in cols_needed \cap DOMAIN m.val.idx_map}))
        Meta(m) ==
            IF ~m.ok THEN m
            ELSE Cols(m, {"rowId", "topic", "prompt", "used", "title"}
                         \cup {h \in Range(m.val.headers) : StartsWith(Lower(h), "keyword")})
        Got(g) ==
            IF g.hit /\ g.data[1] # <<>>
            THEN [ok |-> TRUE, e |-> [e EXCEPT !.cache = g.cache], val |-> g.data[1]]
            ELSE Meta(get_sheet_metadata([e EXCEPT !.cache = g.cache], sh))
    IN  Got(SheetsCache_get(e.cache, UnusedKey, e.now))

\* ------------------------------------------------------------------ batchUpdate and append
\* An entry of `data` is [c0, c1, row, values]: the range <c0><row>:<c1><row>
\* (or the cell <c0><row> when c1 = c0), column letters as the handler wrote
\* them, and the one row of values to put there.  The store reads it as the
\* columns lo..hi of that row, whichever way round the letters come.
ReadRange(u) ==
    LET a == A1Col(u.c0)
        b == A1Col(u.c1)
    IN  [valid |-> a >= 0 /\ b >= 0,
         lo |-> IF a <= b THEN a ELSE b,
         hi |-> IF a <= b THEN b ELSE a,
         row |-> u.row,
         values |-> u.values]

\* The store takes the entry: a range of the grid that holds the values.
UpdateOk(sh, u) ==
    LET d == ReadRange(u)
    IN  /\ d.valid
        /\ d.hi < Len(sh.headers)
        /\ d.row >= 1 /\ d.row <= GridRowCount(sh)
        /\ d.lo + Len(d.values) - 1 <= d.hi

BatchOk(sh, data) == \A k \in 1..Len(data) : UpdateOk(sh, data[k])

RECURSIVE PutAll(_, _, _)
\* The grid after the first n entries: a later entry overwrites an earlier one.
PutAll(g, d, n) ==
    IF n = 0 THEN g
    ELSE LET before == PutAll(g, d, n - 1)
             u == d[n]
         IN  [before EXCEPT ![u.row] =
                [c \in 1..Len(@) |->
                    IF c - 1 >= u.lo /\ c - 1 < u.lo + Len(u.values)
                    THEN u.values[c - u.lo]
                    ELSE @[c]]]

\* values.batchUpdate(data): all entries or, when the store refuses one, none.
BatchUpdate(sh, data) ==
    LET g == PutAll(Grid(sh), [k \in 1..Len(data) |-> ReadRange(data[k])], Len(data))
    IN  [headers |-> g[1], rows |-> Tail(g)]

\* values.append(INSERT_ROWS): the new rows follow the last row.
AppendRows(sh, new) == [sh EXCEPT !.rows = @ \o new]

\* ------------------------------------------------------------------ mark_prompt_locked
\* row_data.get("used") or ""
RowDataUsed(row_data) == IF "used" \in DOMAIN row_data THEN row_data["used"] ELSE ""

\* TargetGroup falling back on the first topic when no topic holds rowId.
TargetGroup_first(unused_by_topic, rowId) ==
    IF \E j \in 1..Len(unused_by_topic) :
          \E k \in 1..Len(unused_by_topic[j].rows) : unused_by_topic[j].rows[k].rowId = rowId
    THEN CHOOSE j \in 1..Len(unused_by_topic) :
            /\ \E k \in 1..Len(unused_by_topic[j].rows) : unused_by_topic[j].rows[k].rowId = rowId
            /\ \A l \in 1..(j - 1) :
                  \A k \in 1..Len(unused_by_topic[l].rows) : unused_by_topic[l].rows[k].rowId # rowId
    ELSE IF unused_by_topic # <<>> THEN 1 ELSE 0
\* The first topic of unused_by_topic.items() that holds rowId, 0 for None.
TargetGroup(unused_by_topic, rowId) ==
    IF \E j \in 1..Len(unused_by_topic) :
          \E k \in 1..Len(unused_by_topic[j].rows) : unused_by_topic[j].rows[k].rowId = rowId
    THEN CHOOSE j \in 1..Len(unused_by_topic) :
            /\ \E k \in 1..Len(unused_by_topic[j].rows) : unused_by_topic[j].rows[k].rowId = rowId
            /\ \A l \in 1..(j - 1) :
                  \A k \in 1..Len(unused_by_topic[l].rows) : unused_by_topic[l].rows[k].rowId # rowId
    ELSE 0

\* LockUpdates addressing by rowId: the row numbered rowId + 1 in place of row_idx.
LockUpdates_rowId(group_rows, idx_map, log_id, now_thai) ==
    LET todo == SelectSeq(group_rows, LAMBDA rd : Upper(Strip(RowDataUsed(rd))) # "LOCKED")
    IN  [k \in 1..Len(todo) |->
            [c0 |-> col_idx_to_a1(idx_map["used"]), c1 |-> col_idx_to_a1(idx_map["timestamp"]),
             row |-> todo[k].rowId + 1, values |-> <<"LOCKED", log_id, now_thai>>]]
\* updates: one entry per row of the topic that is not seen as LOCKED.
LockUpdates(group_rows, idx_map, log_id, now_thai) ==
    LET todo == SelectSeq(group_rows, LAMBDA rd : Upper(Strip(RowDataUsed(rd))) # "LOCKED")
    IN  [k \in 1..Len(todo) |->
            IF "timestamp" \in DOMAIN idx_map
            THEN [c0 |-> col_idx_to_a1(idx_map["used"]), c1 |-> col_idx_to_a1(idx_map["timestamp"]),
                  row |-> todo[k].row_idx, values |-> <<"LOCKED", log_id, now_thai>>]
            ELSE [c0 |-> col_idx_to_a1(idx_map["used"]), c1 |-> col_idx_to_a1(idx_map["log_id"]),
                  row |-> todo[k].row_idx, values |-> <<"LOCKED", log_id>>]]

\* What a handler returns: the threaded state, the sheet, the HTTP status and
\* body; `raised` is the status of the exception raised inside its try block
\* (0 when none), which `except Exception` turns into a 500.  The store's own
\* errors are 503 when it is not taking writes and 400 for a range it cannot read.
Failed(e, sh, raised) ==
    [e |-> e, sh |-> sh, status |-> 500, raised |-> raised, body |-> <<>>]
Done(e, sh, body) ==
    [e |-> e, sh |-> sh, status |-> 200, raised |-> 0, body |-> body]

\* mark_prompt_locked(p)
mark_prompt_locked(e, sh, rowId, log_id) ==
    LET Write(e1, updates) ==
            IF e1.refuse THEN Failed(e1, sh, 503)
            ELSE IF ~BatchOk(sh, updates) THEN Failed(e1, sh, 400)
            ELSE Done([e1 EXCEPT !.batches = @ + 1, !.cache = SheetsCache_invalidate(@, "")],
                      BatchUpdate(sh, updates), [locked_cells |-> Len(updates)])
        Send(m, updates) ==
            IF updates = <<>>
            THEN Done(m.e, sh, [locked_cells |-> 0])
            ELSE Write(Remote(Acquire(m.e)), updates)
        Mark(group_rows, m) ==
            IF ~m.ok THEN Failed(m.e, sh, 500)
            ELSE IF Missing(<<"used", "log_id">>, m.val.idx_map) # {} THEN Failed(m.e, sh, 500)
            ELSE Send(m, LockUpdates(group_rows, m.val.idx_map, log_id, FormatTime(m.e.now)))
        At(u, j) ==
            IF j = 0 THEN Failed(u.e, sh, 404)
            ELSE Mark(u.val[j].rows, get_sheet_metadata(u.e, sh))
        Find(u) ==
            IF ~u.ok THEN Failed(u.e, sh, 500)
            ELSE At(u, TargetGroup(u.val, rowId))
    IN  Find(get_unused_rows_by_topic(
                [e EXCEPT !.cache = SheetsCache_invalidate(@, "unused_rows")], sh))

\* ------------------------------------------------------------------ clear_prompt_mark
\* The first row whose rowId cell reads as p.rowId: its index in values, 0 when none.
ClearTargetRow(values, idx_map, rowId) ==
    LET hit(i) == /\ Len(values[i]) > idx_map["rowId"]
                  /\ IsInt(values[i][idx_map["rowId"] + 1])
                  /\ IntOf(values[i][idx_map["rowId"] + 1]) = rowId
    IN  IF \E i \in 1..Len(values) : hit(i)
        THEN CHOOSE i \in 1..Len(values) : hit(i) /\ \A j \in 1..(i - 1) : ~hit(j)
        ELSE 0

\* ToClear without the test of the used cell: every row of the topic.
ToClear_any(values, idx_map, target_topic, i) ==
    /\ Len(values[i]) > idx_map["topic"]
    /\ values[i][idx_map["topic"] + 1] = target_topic
\* ToClear without .upper(): the marks in capitals only.
ToClear_cased(values, idx_map, target_topic, i) ==
    /\ Len(values[i]) > idx_map["topic"]
    /\ values[i][idx_map["topic"] + 1] = target_topic
    /\ LET used == IF Len(values[i]) > idx_map["used"] THEN values[i][idx_map["used"] + 1] ELSE ""
       IN  Strip(used) \in {"", "LOCKED", "FAILED"}
\* topic == target_topic and used.strip().upper() in ("", "LOCKED", "FAILED")
ToClear(values, idx_map, target_topic, i) ==
    /\ Len(values[i]) > idx_map["topic"]
    /\ values[i][idx_map["topic"] + 1] = target_topic
    /\ LET used == IF Len(values[i]) > idx_map["used"] THEN values[i][idx_map["used"] + 1] ELSE ""
       IN  Upper(Strip(used)) \in {"", "LOCKED", "FAILED"}

RECURSIVE ClearUpdates(_, _, _, _)
\* updates: for the rows up to the n-th, one cell per column of clear_cols that the header has.
ClearUpdates(values, idx_map, target_topic, n) ==
    IF n = 0 THEN <<>>
    ELSE LET before == ClearUpdates(values, idx_map, target_topic, n - 1)
             cols == SelectSeq(<<"used", "log_id", "timestamp">>, LAMBDA c : c \in DOMAIN idx_map)
         IN  IF ToClear(values, idx_map, target_topic, n)
             THEN before \o [k \in 1..Len(cols) |->
                               [c0 |-> ChrA(idx_map[cols[k]]), c1 |-> ChrA(idx_map[cols[k]]),
                                row |-> n + 1, values |-> <<"">>]]
             ELSE before

\* clear_prompt_mark(p)
clear_prompt_mark(e, sh, rowId) ==
    LET Write(e2, updates) ==
            IF e2.refuse THEN Failed(e2, sh, 503)
            ELSE IF ~BatchOk(sh, updates) THEN Failed(e2, sh, 400)
            ELSE Done([e2 EXCEPT !.batches = @ + 1, !.cache = SheetsCache_invalidate(@, "")],
                      BatchUpdate(sh, updates), <<>>)
        Send(e1, updates) ==
            IF updates = <<>> THEN Done(e1, sh, <<>>)
            ELSE Write(Remote(Acquire(e1)), updates)
        Topic(e1, idx_map, values, target_topic) ==
            IF target_topic = "" THEN Failed(e1, sh, 404)
            ELSE Send(e1, ClearUpdates(values, idx_map, target_topic, Len(values)))
        Target(e1, idx_map, values, t) ==
            Topic(e1, idx_map, values,
                  IF t = 0 THEN ""
                  ELSE IF Len(values[t]) > idx_map["topic"]
                       THEN values[t][idx_map["topic"] + 1]
                       ELSE "")
        Scan(e1, idx_map, values) ==
            IF values = <<>> THEN Failed(e1, sh, 404)
            ELSE Target(e1, idx_map, values, ClearTargetRow(values, idx_map, rowId))
        Read(m, e1, last_col) ==
            IF last_col < 0 THEN Failed(e1, sh, 500)
            ELSE Scan(e1, m.val.idx_map, ValuesGet(sh, 0, 2, last_col, m.val.row_count))
        LastCol(idxs) == A1Col(ChrA(CHOOSE i \in idxs : \A j \in idxs : j <= i))
        Meta(m) ==
            IF ~m.ok THEN Failed(m.e, sh, 500)
            ELSE Read(m, Remote(m.e),
                      LastCol({m.val.idx_map[c] : c \in {"rowId", "topic", "used"}}))
    IN  Meta(get_sheet_metadata(
                Acquire([e EXCEPT !.cache = SheetsCache_invalidate(@, "")]), sh))

\* ------------------------------------------------------------------ mark_prompt_used
\* MarkMatches by place: the i-th row in place of the row whose rowId cell is named.
MarkMatches_pos(row_id_values, rowIds, i) == row_id_values[i] # <<>> /\ i \in rowIds
\* row_id in request.rowIds, for a cell that int() reads
MarkMatches(row_id_values, rowIds, i) ==
    /\ row_id_values[i] # <<>>
    /\ IsInt(row_id_values[i][1])
    /\ IntOf(row_id_values[i][1]) \in rowIds

RECURSIVE MarkUpdates(_, _, _, _, _, _)
\* updates: for the rows up to the n-th, the range used..timestamp of row i + 2 (i from 0).
MarkUpdates(row_id_values, idx_map, rowIds, log_id, now_thai, n) ==
    IF n = 0 THEN <<>>
    ELSE LET before == MarkUpdates(row_id_values, idx_map, rowIds, log_id, now_thai, n - 1)
         IN  IF MarkMatches(row_id_values, rowIds, n)
             THEN Append(before,
                         [c0 |-> col_idx_to_a1(idx_map["used"]),
                          c1 |-> col_idx_to_a1(idx_map["timestamp"]),
                          row |-> (n - 1) + 2, values |-> <<"yes", log_id, now_thai>>])
             ELSE before

\* mark_prompt_used(request); rowIds is the set of request.rowIds
mark_prompt_used(e, sh, rowIds, log_id) ==
    LET Write(e2, updates) ==
            IF e2.refuse THEN Failed(e2, sh, 503)
            ELSE IF ~BatchOk(sh, updates) THEN Failed(e2, sh, 400)
            ELSE Done([e2 EXCEPT !.batches = @ + 1, !.cache = SheetsCache_invalidate(@, "")],
                      BatchUpdate(sh, updates), [marked |-> Len(updates)])
        Send(e1, updates) ==
            IF updates = <<>> THEN Done(e1, sh, [marked |-> 0])
            ELSE Write(Remote(Acquire(e1)), updates)
        Scan(e1, idx_map, row_id_values) ==
            Send(e1, MarkUpdates(row_id_values, idx_map, rowIds, log_id,
                                 FormatTime(e1.now), Len(row_id_values)))
        Read(m, c) ==
            Scan(Remote(m.e), m.val.idx_map, ValuesGet(sh, c, 2, c, m.val.row_count))
        Meta(m) ==
            IF ~m.ok THEN Failed(m.e, sh, 500)
            ELSE IF Missing(<<"rowId", "used", "log_id", "timestamp">>, m.val.idx_map) # {}
            THEN Failed(m.e, sh, 500)
            ELSE Read(m, A1Col(col_idx_to_a1(m.val.idx_map["rowId"])))
    IN  Meta(get_sheet_metadata(
                Acquire([e EXCEPT !.cache = SheetsCache_invalidate(@, "")]), sh))

\* ------------------------------------------------------------------ get_next_prompt
\* cell(row, col) of get_next_prompt
cell(idx_map, row, col) ==
    IF col \notin DOMAIN idx_map THEN ""
    ELSE IF idx_map[col] >= Len(row) THEN ""
    ELSE Strip(row[idx_map[col] + 1])

\* first_idx: the first data row whose used cell is empty, 0 for None (rows count from 1 here)
FirstIdx(idx_map, data_rows) ==
    IF \E i \in 1..Len(data_rows) : cell(idx_map, data_rows[i], "used") = ""
    THEN CHOOSE i \in 1..Len(data_rows) :
            /\ cell(idx_map, data_rows[i], "used") = ""
            /\ \A j \in 1..(i - 1) : cell(idx_map, data_rows[j], "used") # ""
    ELSE 0

RECURSIVE BlockRows_skip(_, _, _, _)
\* BlockRows passing over the rows of other topics in place of stopping at them.
BlockRows_skip(idx_map, data_rows, target_topic, i) ==
    IF i > Len(data_rows) THEN <<>>
    ELSE IF cell(idx_map, data_rows[i], "used") # "" THEN <<>>
    ELSE IF cell(idx_map, data_rows[i], "topic") # target_topic
         THEN BlockRows_skip(idx_map, data_rows, target_topic, i + 1)
    ELSE <<i>> \o BlockRows_skip(idx_map, data_rows, target_topic, i + 1)
RECURSIVE BlockRows(_, _, _, _)
\* block_rows: from row i on, while used is empty and the topic is the target's
BlockRows(idx_map, data_rows, target_topic, i) ==
    IF i > Len(data_rows) THEN <<>>
    ELSE IF cell(idx_map, data_rows[i], "used") # "" THEN <<>>
    ELSE IF cell(idx_map, data_rows[i], "topic") # target_topic THEN <<>>
    ELSE <<i>> \o BlockRows(idx_map, data_rows, target_topic, i + 1)

RECURSIVE SortByIdx(_, _)
\* list.sort(key=idx_map.get): stable
SortByIdx(idx_map, cols) ==
    IF cols = <<>> THEN <<>>
    ELSE LET rest == SortByIdx(idx_map, SubSeq(cols, 1, Len(cols) - 1))
             x == cols[Len(cols)]
             n == Cardinality({k \in 1..Len(rest) : idx_map[rest[k]] <= idx_map[x]})
         IN  SubSeq(rest, 1, n) \o <<x>> \o SubSeq(rest, n + 1, Len(rest))

\* keyword_cols: the headers that start with "keyword", by column
KeywordCols(hdrs, idx_map) ==
    SortByIdx(idx_map, SelectSeq(hdrs, LAMBDA h : StartsWith(Lower(Strip(h)), "keyword")))

RECURSIVE Split(_)
\* str.split(): the words between blanks
Split(s) ==
    LET t == Strip(s)
    IN  IF t = "" THEN <<>>
        ELSE LET n == CHOOSE k \in 1..Len(t) :
                         /\ \A i \in 1..k : CharAt(t, i) # " "
                         /\ (k = Len(t) \/ CharAt(t, k + 1) = " ")
             IN  <<SubSeq(t, 1, n)>> \o Split(SubSeq(t, n + 1, Len(t)))

Punct == ",.;:()[]{}'\""

RECURSIVE StripPunct(_)
\* token.strip(",.;:()[]{}'\"")
StripPunct(s) ==
    IF s = "" THEN ""
    ELSE IF IndexIn(Punct, CharAt(s, 1)) > 0 THEN StripPunct(SubSeq(s, 2, Len(s)))
    ELSE IF IndexIn(Punct, CharAt(s, Len(s))) > 0 THEN StripPunct(SubSeq(s, 1, Len(s) - 1))
    ELSE s

RECURSIVE AddDistinct_dups(_, _, _)
\* AddDistinct without the test of `seen`: a value is taken each time it comes.
AddDistinct_dups(kws, xs, stop) ==
    IF xs = <<>> \/ Len(kws) >= stop THEN kws
    ELSE IF xs[1] # ""
         THEN AddDistinct_dups(Append(kws, xs[1]), Tail(xs), stop)
         ELSE AddDistinct_dups(kws, Tail(xs), stop)

RECURSIVE AddDistinct(_, _, _)
\* Append the non-empty entries of xs not yet in kws, in order, while the stop length is not reached.
AddDistinct(kws, xs, stop) ==
    IF xs = <<>> \/ Len(kws) >= stop THEN kws
    ELSE IF xs[1] # "" /\ xs[1] \notin Range(kws)
         THEN AddDistinct(Append(kws, xs[1]), Tail(xs), stop)
         ELSE AddDistinct(kws, Tail(xs), stop)

\* The keywords of one row of the batch.
Keywords(idx_map, keyword_cols, row) ==
    LET prompt == cell(idx_map, row, "prompt")
        stored == AddDistinct(<<>>, [k \in 1..Len(keyword_cols) |-> cell(idx_map, row, keyword_cols[k])],
                              Len(keyword_cols) + 1)
        tokens == Split(prompt)
        kws == IF Len(stored) < 10 /\ prompt # ""
               THEN AddDistinct(stored, [k \in 1..Len(tokens) |-> Lower(StripPunct(tokens[k]))], 10)
               ELSE stored
    IN  SubSeq(kws, 1, IF Len(kws) < 10 THEN Len(kws) ELSE 10)

\* One entry of "prompts".
BatchOutput(idx_map, keyword_cols, row) ==
    LET row_id == cell(idx_map, row, "rowId")
        topic == cell(idx_map, row, "topic")
        prompt == cell(idx_map, row, "prompt")
        title == cell(idx_map, row, "title")
        from == IF topic # "" THEN topic ELSE prompt
    IN  [rowId |-> IF IsInt(row_id) /\ row_id = Strip(row_id) THEN <<IntOf(row_id)>> ELSE <<row_id>>,
         topic |-> topic,
         prompt |-> prompt,
         title |-> IF title # "" THEN title
                   ELSE Strip(SubSeq(from, 1, IF Len(from) < 70 THEN Len(from) ELSE 70)),
         keywords |-> Keywords(idx_map, keyword_cols, row)]

\* get_next_prompt(); block is block_rows' row indices (from 1)
get_next_prompt(e, sh) ==
    LET Out(e1, m, data_rows, block_rows, keyword_cols) ==
            Done(e1, sh,
                 [prompts |-> [k \in 1..Len(block_rows) |->
                                 BatchOutput(m.val.idx_map, keyword_cols, data_rows[block_rows[k]])],
                  block |-> block_rows])
        Block(e1, m, data_rows, first_idx, target_topic) ==
            Out(e1, m, data_rows,
                BlockRows(m.val.idx_map, data_rows, target_topic, first_idx),
                KeywordCols(m.val.headers, m.val.idx_map))
        First(e1, m, values, data_rows, first_idx) ==
            IF values = <<>> \/ first_idx = 0
            THEN Done(e1, sh, [prompts |-> <<>>, block |-> <<>>])
            ELSE Block(e1, m, data_rows, first_idx,
                       cell(m.val.idx_map, data_rows[first_idx], "topic"))
        Rows(e1, m, values, data_rows) ==
            First(e1, m, values, data_rows, FirstIdx(m.val.idx_map, data_rows))
        Read(e1, m, values) ==
            Rows(e1, m, values, IF Len(values) > 1 THEN Tail(values) ELSE <<>>)
        Meta(m) ==
            IF ~m.ok THEN Failed(m.e, sh, 500)
            ELSE IF Missing(<<"rowId", "topic", "prompt", "title", "used">>, m.val.idx_map) # {}
            THEN Failed(m.e, sh, 500)
            ELSE Read(Remote(Acquire(m.e)), m, ValuesGetAll(sh))
    IN  Meta(get_sheet_metadata(e, sh))

\* ------------------------------------------------------------------ insert_prompts
\* MaxRowIdOf reading the last row only: right while the rowIds grow down the sheet.
MaxRowIdOf_last(data_rows, rowid_idx, n) ==
    IF n = 0 THEN 0
    ELSE IF Len(data_rows[n]) > rowid_idx /\ IsInt(data_rows[n][rowid_idx + 1])
         THEN IntOf(data_rows[n][rowid_idx + 1])
         ELSE 0
RECURSIVE MaxRowIdOf(_, _, _)
\* max_row_id over the first n data rows: a cell int() cannot read is passed over
MaxRowIdOf(data_rows, rowid_idx, n) ==
    IF n = 0 THEN 0
    ELSE LET before == MaxRowIdOf(data_rows, rowid_idx, n - 1)
             r == data_rows[n]
         IN  IF Len(r) > rowid_idx
             THEN IF IsInt(r[rowid_idx + 1]) THEN Max2(before, IntOf(r[rowid_idx + 1])) ELSE before
             ELSE before

\* extract_keywords(item): keyword1..keyword10, stripped
extract_keywords(item) == [i \in 1..10 |-> Strip(item.kws[i])]

\* RowVals without the + 1 of next_id: the first new row takes the greatest rowId again.
RowVals_max(hdrs, idx_map, keyword_cols, item, next_id) ==
    LET payload_kws == extract_keywords(item)
        kwAt(c) == {i \in 1..Len(keyword_cols) : i <= 10 /\ idx_map[keyword_cols[i]] = c}
    IN  [c1 \in 1..Len(hdrs) |->
            LET c == c1 - 1 IN
            IF c \in {idx_map["used"], idx_map["log_id"], idx_map["timestamp"]} THEN ""
            ELSE IF kwAt(c) # {}
                 THEN payload_kws[CHOOSE i \in kwAt(c) : \A j \in kwAt(c) : j <= i]
            ELSE IF c = idx_map["title"] THEN item.title
            ELSE IF c = idx_map["prompt"] THEN item.prompt
            ELSE IF c = idx_map["topic"] THEN item.topic
            ELSE IF c = idx_map["rowId"] THEN ToString(next_id - 1)
            ELSE ""]
\* row_vals for one item: the assignments in the order of the code, the last one to a column wins
RowVals(hdrs, idx_map, keyword_cols, item, next_id) ==
    LET payload_kws == extract_keywords(item)
        kwAt(c) == {i \in 1..Len(keyword_cols) : i <= 10 /\ idx_map[keyword_cols[i]] = c}
    IN  [c1 \in 1..Len(hdrs) |->
            LET c == c1 - 1 IN
            IF c \in {idx_map["used"], idx_map["log_id"], idx_map["timestamp"]} THEN ""
            ELSE IF kwAt(c) # {}
                 THEN payload_kws[CHOOSE i \in kwAt(c) : \A j \in kwAt(c) : j <= i]
            ELSE IF c = idx_map["title"] THEN item.title
            ELSE IF c = idx_map["prompt"] THEN item.prompt
            ELSE IF c = idx_map["topic"] THEN item.topic
            ELSE IF c = idx_map["rowId"] THEN ToString(next_id)
            ELSE ""]

\* count_unmarked(existing_rows)
count_unmarked(data_rows, used_idx) ==
    Cardinality({n \in 1..Len(data_rows) :
        Lower(Strip(IF Len(data_rows[n]) > used_idx THEN data_rows[n][used_idx + 1] ELSE "")) # "yes"})

\* A row of the append, as wide as the grid.
Widen(sh, r) == [c \in 1..Len(sh.headers) |-> IF c <= Len(r) THEN r[c] ELSE ""]

\* insert_prompts(req); items is req.payload.rows
insert_prompts(e, sh, items) ==
    LET Write(e1, to_append, body) ==
            IF e1.refuse THEN Failed(e1, sh, 503)
            ELSE Done([e1 EXCEPT !.cache = SheetsCache_invalidate(@, "")],
                      AppendRows(sh, [k \in 1..Len(to_append) |-> Widen(sh, to_append[k])]),
                      body)
        Send(e0, to_append, body) ==
            IF to_append = <<>> THEN Done(e0, sh, body)
            ELSE Write(Remote(Acquire(e0)), to_append, body)
        Count(e0, data_rows, idx_map, to_append) ==
            Send(e0, to_append,
                 [inserted |-> Len(to_append),
                  remaining_unmarked |->
                      count_unmarked(data_rows, idx_map["used"]) + Len(to_append)])
        Build(e0, hdrs, data_rows, idx_map, keyword_cols, max_row_id) ==
            Count(e0, data_rows, idx_map,
                  [k \in 1..Len(items) |->
                      RowVals(hdrs, idx_map, keyword_cols, items[k], max_row_id + k)])
        Cols(e0, hdrs, data_rows, idx_map) ==
            IF Missing(<<"rowId", "topic", "prompt", "title", "used", "log_id", "timestamp">>,
                       idx_map) # {}
            THEN Failed(e0, sh, 500)
            ELSE Build(e0, hdrs, data_rows, idx_map, KeywordCols(hdrs, idx_map),
                       MaxRowIdOf(data_rows, idx_map["rowId"], Len(data_rows)))
        Read(e0, values) ==
            IF values = <<>> THEN Failed(e0, sh, 500)
            ELSE Cols(e0, values[1], IF Len(values) > 1 THEN Tail(values) ELSE <<>>,
                      IdxMap(values[1]))
    IN  Read(Remote(Acquire([e EXCEPT !.cache = SheetsCache_invalidate(@, "")])),
             ValuesGetAll(sh))

\* ------------------------------------------------------------------ the handlers as steps
\* The call returned r, within the model's clock.  resp records the call, what it
\* returned and cost, and the data rows, the header row and the time it started with.
Returns(r, call) ==
    /\ r.e.now <= MaxTime
    /\ now' = r.e.now
    /\ cache' = r.e.cache
    /\ requests' = r.e.requests
    /\ headers' = r.sh.headers
    /\ rows' = r.sh.rows
    /\ resp' = call @@ [status |-> r.status, raised |-> r.raised, body |-> r.body,
                        acq |-> r.e.acq, rem |-> r.e.rem, batches |-> r.e.batches,
                        found |-> rows, header |-> headers, at |-> now]
    /\ UNCHANGED <<lastSet, admitted, waiting, writable, pending>>

\* The service is at rest: no call has been made on this sheet yet.  Init
\* holds the sheets that calls leave behind, so a behaviour is one call from
\* one of them; SpecClient below runs calls one after another.
AtRest == resp.op = "init"

GetNextPrompt ==
    /\ AtRest
    /\ Returns(get_next_prompt(Env, Sheet), [op |-> "get_next_prompt"])

Lock(rowId, log_id) ==
    /\ AtRest
    /\ Returns(mark_prompt_locked(Env, Sheet, rowId, log_id),
               [op |-> "lock", rowId |-> rowId, log_id |-> log_id])

Clear(rowId) ==
    /\ AtRest
    /\ Returns(clear_prompt_mark(Env, Sheet, rowId), [op |-> "clear", rowId |-> rowId])

MarkUsed(rowIds, log_id) ==
    /\ AtRest
    /\ Returns(mark_prompt_used(Env, Sheet, rowIds, log_id),
               [op |-> "markUsed", rowIds |-> rowIds, log_id |-> log_id])

Insert(items) ==
    /\ AtRest
    /\ Len(rows) + Len(items) <= MaxRows
    /\ Returns(insert_prompts(Env, Sheet, items), [op |-> "insert", items |-> items])

\* ------------------------------------------------------------------ the service: every call from every rest state
Topics == {"A", "B"}
LogIds == {"L1", "L2"}
\* rowIds a client may name: those of the sheet and one more
RowIds == 1..(MaxRows + 1)

\* A data row under DocHeaders.
MkRow(rowId, topic, used, log_id, timestamp) ==
    <<ToString(rowId), topic, "a cute cat", "", "", used, log_id, timestamp>>

\* A row as earlier calls left it: unused and blank, or marked at time 0 for the
\* holder L1 (LOCKED by lock, yes by markUsed, FAILED by the worker).
RestRow(rowId, topic, used) ==
    MkRow(rowId, topic, used, IF used = "" THEN "" ELSE "L1", IF used = "" THEN "" ELSE FormatTime(0))

\* The sheets a call finds.  Rows are numbered downwards, so a rowId is not
\* the row's place.  The first row has topic A; the last row may have none
\* (insert takes an empty topic); the first row's mark may be in another case.
RestSheets ==
    UNION {
        { [i \in 1..n |-> RestRow(n + 1 - i, tp[i], us[i])] :
            tp \in { f \in [1..n -> Topics \cup {""}] :
                        /\ \A i \in 1..n : i = 1 => f[i] = "A"
                        /\ \A i \in 1..(n - 1) : f[i] # "" },
            us \in { f \in [1..n -> {"", "LOCKED", "yes", "FAILED", "failed", "Yes"}] :
                        \A i \in 2..n : f[i] \in {"", "LOCKED", "yes", "FAILED"} } }
        : n \in 0..MaxRows }

\* Payload rows of an insert.
InsertItems ==
    { [topic |-> t, prompt |-> "a big dog", title |-> "dog",
       kws |-> [i \in 1..10 |-> IF i = 1 THEN "dog" ELSE IF i = 2 THEN "big" ELSE ""]] :
      t \in Topics \cup {""} }

\* The metadata entry the startup warm-up (lifespan) cached at time 0; none when
\* the header lacks a required column (the warm-up logs the failure and goes on).
WarmCache(sh) ==
    IF Missing(<<"rowId", "topic", "prompt", "used">>, IdxMap(sh.headers)) # {}
    THEN EmptyDict
    ELSE SheetsCache_set(EmptyDict, MetadataKey,
                         [headers |-> sh.headers, idx_map |-> IdxMap(sh.headers),
                          row_count |-> GridRowCount(sh)], 0)

\* The service at rest at time 1: warmed up at time 0 (one acquire()), the
\* sheet as earlier calls left it.
Init ==
    /\ now = 1
    /\ headers = DocHeaders
    /\ rows \in RestSheets
    /\ cache = WarmCache([headers |-> headers, rows |-> rows])
    /\ requests = <<0>>
    /\ lastSet = EmptyDict
    /\ admitted = <<>>
    /\ waiting = [t \in Tasks |-> -1]
    /\ writable = TRUE
    /\ pending = [t \in Tasks |-> <<>>]
    /\ resp = [op |-> "init"]

\* One call of one handler.
Next ==
    \/ GetNextPrompt
    \/ \E rowId \in RowIds, log_id \in LogIds : Lock(rowId, log_id)
    \/ \E rowId \in RowIds : Clear(rowId)
    \/ \E rowIds \in {S \in SUBSET RowIds : Cardinality(S) <= 2}, log_id \in LogIds :
          MarkUsed(rowIds, log_id)
    \/ \E item \in InsertItems : Insert(<<item>>)

Spec == Init /\ [][Next]_vars

\* ------------------------------------------------------------------ the service under other header layouts
\* A keyword column between used and log_id.
GapHeaders == <<"rowId", "topic", "prompt", "title", "used", "keyword1", "log_id", "timestamp">>
\* The keyword columns out of numeric order.
SwappedHeaders ==
    <<"rowId", "topic", "prompt", "title", "keyword2", "keyword1", "used", "log_id", "timestamp">>
\* The keyword columns start at keyword2.
LateHeaders ==
    <<"rowId", "topic", "prompt", "title", "keyword2", "keyword3", "used", "log_id", "timestamp">>
\* used, log_id and timestamp beyond column Z.
WideHeaders ==
    SubSeq(DocHeaders, 1, 5) \o [i \in 1..FillerCols |-> "c" \o ToString(i)] \o SubSeq(DocHeaders, 6, 8)
\* A column missing.
NoLogIdHeaders == <<"rowId", "topic", "prompt", "title", "keyword1", "used", "timestamp">>
NoTimestampHeaders == <<"rowId", "topic", "prompt", "title", "keyword1", "used", "log_id">>
NoTitleHeaders == <<"rowId", "topic", "prompt", "keyword1", "used", "log_id", "timestamp">>
NoUsedHeaders == <<"rowId", "topic", "prompt", "title", "keyword1", "log_id", "timestamp">>

Layouts ==
    {DocHeaders, GapHeaders, SwappedHeaders, LateHeaders, WideHeaders,
     NoLogIdHeaders, NoTimestampHeaders, NoTitleHeaders, NoUsedHeaders}

\* The row of RestRow laid out under hdrs: each cell under the header of its name.
RowIn(hdrs, rowId, topic, used) ==
    LET f == [rowId |-> ToString(rowId), topic |-> topic, prompt |-> "a cute cat",
              used |-> used, log_id |-> IF used = "" THEN "" ELSE "L1",
              timestamp |-> IF used = "" THEN "" ELSE FormatTime(0)]
    IN  [c \in 1..Len(hdrs) |-> IF hdrs[c] \in DOMAIN f THEN f[hdrs[c]] ELSE ""]

\* The sheets a call finds under hdrs: as RestSheets, up to LayoutRows rows.
LayoutSheets(hdrs) ==
    UNION {
        { [i \in 1..n |-> RowIn(hdrs, n + 1 - i, tp[i], us[i])] :
            tp \in { f \in [1..n -> Topics] : \A i \in 1..n : i = 1 => f[i] = "A" },
            us \in [1..n -> {"", "LOCKED", "yes"}] }
        : n \in 0..LayoutRows }

\* The service at rest at time 1 over a sheet of any layout, the store taking
\* writes or raising on them.
InitStore ==
    /\ now = 1
    /\ headers \in Layouts
    /\ rows \in LayoutSheets(headers)
    /\ cache = WarmCache([headers |-> headers, rows |-> rows])
    /\ requests = <<0>>
    /\ lastSet = EmptyDict
    /\ admitted = <<>>
    /\ waiting = [t \in Tasks |-> -1]
    /\ writable \in BOOLEAN
    /\ pending = [t \in Tasks |-> <<>>]
    /\ resp = [op |-> "init"]

SpecStore == InitStore /\ [][Next]_vars

\* ------------------------------------------------------------------ inserts one after another
\* req.payload.rows: one row or two.
InsertBatches ==
    {<<a>> : a \in InsertItems} \cup {<<a, b>> : a \in InsertItems, b \in InsertItems}

\* insert_prompts is called again once the call before it has returned.
InsertAgain(items) ==
    /\ resp.op \in {"init", "insert"}
    /\ Len(rows) + Len(items) <= MaxRows
    /\ Returns(insert_prompts(Env, Sheet, items), [op |-> "insert", items |-> items])

NextInsert == \E items \in InsertBatches : InsertAgain(items)

SpecInsert == Init /\ [][NextInsert]_vars

\* ------------------------------------------------------------------ the clock
Tick ==
    /\ now < MaxTick
    /\ now' = now + 1
    /\ resp' = [op |-> "tick"]
    /\ UNCHANGED <<cache, requests, lastSet, admitted, waiting, headers, rows, writable, pending>>

\* ------------------------------------------------------------------ insert_prompts, handlers running together
\* The handlers share one event loop: a handler runs until it sleeps in
\* acquire(), the only await that gives the loop to another handler, and goes
\* on from there when its sleep is over.

\* One pass through acquire() at time t: admitted, or asleep until `wake`.
AcquireOnce(reqs, t) ==
    LET kept == Prune(reqs, t)
    IN  IF AtBudget(kept)
        THEN [admitted |-> FALSE, requests |-> kept, wake |-> t + WaitTime(kept, t)]
        ELSE [admitted |-> TRUE, requests |-> Append(kept, t), wake |-> t]

\* to_append for the table as read.
ToAppend(values, items) ==
    LET Number(hdrs, data_rows, idx_map, keyword_cols) ==
            [k \in 1..Len(items) |->
                RowVals(hdrs, idx_map, keyword_cols, items[k],
                        MaxRowIdOf(data_rows, idx_map["rowId"], Len(data_rows)) + k)]
        Cols(hdrs, data_rows, idx_map) ==
            Number(hdrs, data_rows, idx_map, KeywordCols(hdrs, idx_map))
    IN  Cols(values[1], Tail(values), IdxMap(values[1]))

\* The handler of task t returns without an append.
InsertEnds(t, c, reqs, status) ==
    /\ cache' = c
    /\ requests' = reqs
    /\ pending' = [pending EXCEPT ![t] = <<>>]
    /\ resp' = [op |-> "insert", task |-> t, status |-> status, found |-> rows, read |-> rows]
    /\ UNCHANGED rows

\* The handler of task t sleeps in acquire().
InsertSleeps(t, c, reqs, frame) ==
    /\ cache' = c
    /\ requests' = reqs
    /\ pending' = [pending EXCEPT ![t] = <<frame>>]
    /\ resp' = [op |-> "suspended", task |-> t]
    /\ UNCHANGED rows

\* From the acquire() before the append on; `read` is the data rows the handler read.
InsertAppend(t, c, reqs, items, to_append, read) ==
    LET Go(a) ==
            IF ~a.admitted
            THEN InsertSleeps(t, c, a.requests,
                              [at |-> "append", wake |-> a.wake, items |-> items,
                               to_append |-> to_append, read |-> read])
            ELSE IF ~writable THEN InsertEnds(t, c, a.requests, 500)
            ELSE /\ cache' = SheetsCache_invalidate(c, "")
                 /\ requests' = a.requests
                 /\ rows' = AppendRows(Sheet, to_append).rows
                 /\ pending' = [pending EXCEPT ![t] = <<>>]
                 /\ resp' = [op |-> "insert", task |-> t, status |-> 200, items |-> items,
                             found |-> rows, read |-> read]
    IN  Go(AcquireOnce(reqs, now))

\* From the read of the sheet on.
InsertRead(t, c, reqs, items) ==
    LET Plan(values) ==
            IF Missing(<<"rowId", "topic", "prompt", "title", "used", "log_id", "timestamp">>,
                       IdxMap(values[1])) # {}
            THEN InsertEnds(t, c, reqs, 500)
            ELSE IF items = <<>> THEN InsertEnds(t, c, reqs, 200)
            ELSE InsertAppend(t, c, reqs, items, ToAppend(values, items), rows)
    IN  Plan(ValuesGetAll(Sheet))

\* From the first acquire() on.
InsertStart(t, c, items) ==
    LET Go(a) ==
            IF ~a.admitted
            THEN InsertSleeps(t, c, a.requests, [at |-> "read", wake |-> a.wake, items |-> items])
            ELSE InsertRead(t, c, a.requests, items)
    IN  Go(AcquireOnce(requests, now))

\* The rows the suspended handlers are still to append.
PendingRows ==
    LET n(t) == IF pending[t] = <<>> THEN 0 ELSE Len(pending[t][1].items)
        RECURSIVE Sum(_)
        Sum(k) == IF k = 0 THEN 0 ELSE n(k) + Sum(k - 1)
    IN  Sum(NTasks)

\* A request for insert_prompts arrives: task t runs the handler up to its
\* first sleep, or to its end.
InsertCall(t, items) ==
    /\ pending[t] = <<>>
    /\ Len(rows) + PendingRows + Len(items) <= MaxRows
    /\ InsertStart(t, SheetsCache_invalidate(cache, ""), items)
    /\ UNCHANGED <<now, lastSet, admitted, waiting, headers, writable>>

\* The sleep of task t is over: `return await self.acquire()`, and on from there.
InsertWake(t) ==
    /\ pending[t] # <<>>
    /\ now >= pending[t][1].wake
    /\ IF pending[t][1].at = "read"
       THEN InsertStart(t, cache, pending[t][1].items)
       ELSE InsertAppend(t, cache, requests, pending[t][1].items,
                         pending[t][1].to_append, pending[t][1].read)
    /\ UNCHANGED <<now, lastSet, admitted, waiting, headers, writable>>

NextInserts ==
    \/ \E t \in Tasks, items \in InsertBatches : InsertCall(t, items)
    \/ \E t \in Tasks : InsertWake(t)
    \/ Tick

SpecInserts == Init /\ [][NextInserts]_vars

\* ------------------------------------------------------------------ the handlers, running together
\* Every handler as the steps between its awaits.  A frame holds the handler's
\* request, the step it is at (pc), the step get_sheet_metadata returns to
\* (ret) and its locals; the cache, the limiter's log and the data rows are
\* threaded through the steps of one run.  A run goes from step to step until
\* the handler returns or sleeps in acquire().

\* The requests: one record shape for all handlers.
Request(op, rowId, log_id, rowIds, items) ==
    [op |-> op, rowId |-> rowId, log_id |-> log_id, rowIds |-> rowIds, items |-> items]

\* The frame of a handler that starts on the request.
Start(req) ==
    [op |-> req.op, pc |-> req.op, ret |-> "", rowId |-> req.rowId, log_id |-> req.log_id,
     rowIds |-> req.rowIds, items |-> req.items,
     meta |-> <<>>, unused |-> <<>>, group |-> <<>>, updates |-> <<>>, read |-> <<>>,
     body |-> <<>>, status |-> 0, raised |-> 0, asleep |-> FALSE, wake |-> 0,
     cache |-> cache, requests |-> requests, rows |-> rows]

\* The frame of a handler whose sleep is over: it goes on over the shared state of now.
Resume(frame) ==
    [frame EXCEPT !.asleep = FALSE, !.cache = cache, !.requests = requests, !.rows = rows]

\* What a sleeping handler keeps: its own frame, not the shared state.
Suspended(st) == [st EXCEPT !.cache = EmptyDict, !.requests = <<>>, !.rows = <<>>]

SheetOf(st) == [headers |-> headers, rows |-> st.rows]

\* An exception inside the try block: the handler answers 500.
Raise(st, raised) == [st EXCEPT !.pc = "done", !.status = 500, !.raised = raised]
Return(st, body) == [st EXCEPT !.pc = "done", !.status = 200, !.body = body]

\* await rate_limiter.acquire(): admitted, the handler goes on at `next`;
\* else it sleeps and comes back to this step.
AcquireStep(st, next, ret) ==
    LET Go(a) ==
            IF a.admitted
            THEN [st EXCEPT !.requests = a.requests, !.pc = next, !.ret = ret]
            ELSE [st EXCEPT !.requests = a.requests, !.asleep = TRUE, !.wake = a.wake]
    IN  Go(AcquireOnce(st.requests, now))

\* get_sheet_metadata(), to the cache hit or to its acquire()
MetaStep(st) ==
    LET Got(g) ==
            IF g.hit
            THEN [st EXCEPT !.cache = g.cache, !.meta = g.data, !.pc = st.ret]
            ELSE [st EXCEPT !.cache = g.cache, !.pc = "meta_acq"]
    IN  Got(SheetsCache_get(st.cache, MetadataKey, now))

\* get_sheet_metadata(), from its acquire() on: the two remote calls and the set
MetaFetchStep(st) ==
    LET Put(metadata) ==
            IF Missing(<<"rowId", "topic", "prompt", "used">>, metadata.idx_map) # {}
            THEN Raise(st, 500)
            ELSE [st EXCEPT !.cache = SheetsCache_set(@, MetadataKey, metadata, now),
                            !.meta = <<metadata>>, !.pc = st.ret]
        Fetch(values) ==
            IF values = <<>> THEN Raise(st, 500)
            ELSE Put([headers |-> values[1], idx_map |-> IdxMap(values[1]),
                      row_count |-> GridRowCount(SheetOf(st))])
    IN  Fetch(ValuesGet(SheetOf(st), 0, 1, Len(headers) - 1, 2))

\* get_unused_rows_by_topic(), to the cache hit or to get_sheet_metadata()
UnusedStep(st) ==
    LET Got(g) ==
            IF g.hit /\ g.data[1] # <<>>
            THEN [st EXCEPT !.cache = g.cache, !.unused = g.data[1], !.pc = "found"]
            ELSE [st EXCEPT !.cache = g.cache, !.ret = "unused_acq", !.pc = "meta"]
    IN  Got(SheetsCache_get(st.cache, UnusedKey, now))

\* The grouping of the rows A2:<last_col><row_count> of the sheet, <<>> wrapped
\* in a 1-tuple; <<>> when the read or a rowId cell raises.
UnusedRowsOf(sh, m) ==
    LET Group(values) ==
            IF \E n \in 1..Len(values) :
                  /\ Counted(m.idx_map, values[n])
                  /\ get_cell(m.idx_map, values[n], "rowId") # ""
                  /\ ~IsInt(get_cell(m.idx_map, values[n], "rowId"))
            THEN <<>>
            ELSE <<GroupRows(m.idx_map, values, Len(values))>>
        Read(last_col) ==
            IF last_col < 0 THEN <<>>
            ELSE Group(ValuesGet(sh, 0, 2, last_col, m.row_count))
        LastCol(idxs) == A1Col(ChrA(CHOOSE i \in idxs : \A j \in idxs : j <= i))
        Cols(cols_needed) ==
            Read(LastCol({m.idx_map[c] : c \in cols_needed \cap DOMAIN m.idx_map}))
    IN  Cols({"rowId", "topic", "prompt", "used", "title"}
             \cup {h \in Range(m.headers) : StartsWith(Lower(h), "keyword")})

\* get_unused_rows_by_topic(), from its acquire() on: the read and the set
UnusedReadStep(st) ==
    LET Store(u) ==
            IF u = <<>> THEN Raise(st, 500)
            ELSE [st EXCEPT !.cache = SheetsCache_set(@, UnusedKey, u[1], now),
                            !.unused = u[1], !.read = st.rows, !.pc = "found"]
    IN  Store(UnusedRowsOf(SheetOf(st), st.meta[1]))

\* mark_prompt_locked, from the grouping to its get_sheet_metadata()
FoundStep(st) ==
    LET At(j) ==
            IF j = 0 THEN Raise(st, 404)
            ELSE [st EXCEPT !.group = st.unused[j].rows, !.ret = "lock_plan", !.pc = "meta"]
    IN  At(TargetGroup(st.unused, st.rowId))

\* mark_prompt_locked, from the metadata to the acquire() before its write
LockPlanStep(st) ==
    LET Send(updates) ==
            IF updates = <<>> THEN Return(st, [locked_cells |-> 0])
            ELSE [st EXCEPT !.updates = updates, !.pc = "write_acq"]
    IN  IF Missing(<<"used", "log_id">>, st.meta[1].idx_map) # {} THEN Raise(st, 500)
        ELSE Send(LockUpdates(st.group, st.meta[1].idx_map, st.log_id, FormatTime(now)))

\* clear_prompt_mark, from the metadata to the acquire() before its write
ClearReadStep(st) ==
    LET idx_map == st.meta[1].idx_map
        Send(st1, updates) ==
            IF updates = <<>> THEN Return(st1, <<>>)
            ELSE [st1 EXCEPT !.updates = updates, !.pc = "write_acq"]
        Topic(st1, values, target_topic) ==
            IF target_topic = "" THEN Raise(st1, 404)
            ELSE Send(st1, ClearUpdates(values, idx_map, target_topic, Len(values)))
        Target(st1, values, t) ==
            Topic(st1, values,
                  IF t = 0 THEN ""
                  ELSE IF Len(values[t]) > idx_map["topic"]
                       THEN values[t][idx_map["topic"] + 1]
                       ELSE "")
        Scan(st1, values) ==
            IF values = <<>> THEN Raise(st1, 404)
            ELSE Target(st1, values, ClearTargetRow(values, idx_map, st.rowId))
        Read(last_col) ==
            IF last_col < 0 THEN Raise(st, 500)
            ELSE Scan([st EXCEPT !.read = st.rows],
                      ValuesGet(SheetOf(st), 0, 2, last_col, st.meta[1].row_count))
        LastCol(idxs) == A1Col(ChrA(CHOOSE i \in idxs : \A j \in idxs : j <= i))
    IN  Read(LastCol({idx_map[c] : c \in {"rowId", "topic", "used"}}))

\* mark_prompt_used, from the metadata to the acquire() before its write
MarkReadStep(st) ==
    LET idx_map == st.meta[1].idx_map
        Send(st1, updates) ==
            IF updates = <<>> THEN Return(st1, [marked |-> 0])
            ELSE [st1 EXCEPT !.updates = updates, !.pc = "write_acq"]
        Scan(row_id_values) ==
            Send([st EXCEPT !.read = st.rows],
                 MarkUpdates(row_id_values, idx_map, st.rowIds, st.log_id,
                             FormatTime(now), Len(row_id_values)))
        Read(c) == Scan(ValuesGet(SheetOf(st), c, 2, c, st.meta[1].row_count))
    IN  IF Missing(<<"rowId", "used", "log_id", "timestamp">>, idx_map) # {}
        THEN Raise(st, 500)
        ELSE Read(A1Col(col_idx_to_a1(idx_map["rowId"])))

\* batchUpdate and, with no await in between, sheets_cache.invalidate()
WriteStep(st) ==
    IF ~writable THEN Raise(st, 503)
    ELSE IF ~BatchOk(SheetOf(st), st.updates) THEN Raise(st, 400)
    ELSE Return([st EXCEPT !.rows = BatchUpdate(SheetOf(st), st.updates).rows,
                           !.cache = SheetsCache_invalidate(@, "")],
                [written |-> Len(st.updates)])

\* insert_prompts, from the read of the sheet to the acquire() before its append
InsertReadStep(st) ==
    LET Plan(values) ==
            IF values = <<>> THEN Raise(st, 500)
            ELSE IF Missing(<<"rowId", "topic", "prompt", "title", "used", "log_id", "timestamp">>,
                            IdxMap(values[1])) # {}
            THEN Raise(st, 500)
            ELSE IF st.items = <<>> THEN Return([st EXCEPT !.read = st.rows], [inserted |-> 0])
            ELSE [st EXCEPT !.read = st.rows, !.updates = ToAppend(values, st.items),
                            !.pc = "append_acq"]
    IN  Plan(ValuesGetAll(SheetOf(st)))

\* append and, with no await in between, sheets_cache.invalidate()
AppendStep(st) ==
    IF ~writable THEN Raise(st, 503)
    ELSE Return([st EXCEPT !.rows = AppendRows(SheetOf(st),
                                       [k \in 1..Len(st.updates) |->
                                           Widen(SheetOf(st), st.updates[k])]).rows,
                           !.cache = SheetsCache_invalidate(@, "")],
                [inserted |-> Len(st.updates)])

\* get_next_prompt, from the metadata to its acquire()
NextPlanStep(st) ==
    IF Missing(<<"rowId", "topic", "prompt", "title", "used">>, st.meta[1].idx_map) # {}
    THEN Raise(st, 500)
    ELSE [st EXCEPT !.pc = "next_acq"]

\* get_next_prompt, from the read of the sheet on: the rows of the block
NextReadStep(st) ==
    LET idx_map == st.meta[1].idx_map
        Block(data_rows, first_idx) ==
            IF first_idx = 0 THEN Return([st EXCEPT !.read = st.rows], [block |-> <<>>])
            ELSE Return([st EXCEPT !.read = st.rows],
                        [block |-> BlockRows(idx_map, data_rows,
                                             cell(idx_map, data_rows[first_idx], "topic"),
                                             first_idx)])
        Rows(data_rows) == Block(data_rows, FirstIdx(idx_map, data_rows))
    IN  Rows(Tail(ValuesGetAll(SheetOf(st))))

\* One step of the handler: from st.pc to the next await or to the return.
Step(st) ==
    CASE st.pc = "lock" ->
            [st EXCEPT !.cache = SheetsCache_invalidate(@, "unused_rows"), !.pc = "unused"]
      [] st.pc = "unused" -> UnusedStep(st)
      [] st.pc = "unused_acq" -> AcquireStep(st, "unused_read", st.ret)
      [] st.pc = "unused_read" -> UnusedReadStep(st)
      [] st.pc = "found" -> FoundStep(st)
      [] st.pc = "lock_plan" -> LockPlanStep(st)
      [] st.pc = "clear" ->
            [st EXCEPT !.cache = SheetsCache_invalidate(@, ""), !.pc = "clear_acq"]
      [] st.pc = "clear_acq" -> AcquireStep(st, "meta", "clear_read")
      [] st.pc = "clear_read" -> ClearReadStep(st)
      [] st.pc = "markUsed" ->
            [st EXCEPT !.cache = SheetsCache_invalidate(@, ""), !.pc = "mark_acq"]
      [] st.pc = "mark_acq" -> AcquireStep(st, "meta", "mark_read")
      [] st.pc = "mark_read" -> MarkReadStep(st)
      [] st.pc = "write_acq" -> AcquireStep(st, "write", st.ret)
      [] st.pc = "write" -> WriteStep(st)
      [] st.pc = "insert" ->
            [st EXCEPT !.cache = SheetsCache_invalidate(@, ""), !.pc = "insert_acq"]
      [] st.pc = "insert_acq" -> AcquireStep(st, "insert_read", st.ret)
      [] st.pc = "insert_read" -> InsertReadStep(st)
      [] st.pc = "append_acq" -> AcquireStep(st, "append", st.ret)
      [] st.pc = "append" -> AppendStep(st)
      [] st.pc = "get_next_prompt" -> [st EXCEPT !.ret = "next_plan", !.pc = "meta"]
      [] st.pc = "next_plan" -> NextPlanStep(st)
      [] st.pc = "next_acq" -> AcquireStep(st, "next_read", st.ret)
      [] st.pc = "next_read" -> NextReadStep(st)
      [] st.pc = "meta" -> MetaStep(st)
      [] st.pc = "meta_acq" -> AcquireStep(st, "meta_fetch", st.ret)
      [] st.pc = "meta_fetch" -> MetaFetchStep(st)

RECURSIVE Run(_)
\* The handler runs until it returns or sleeps.
Run(st) == IF st.pc = "done" \/ st.asleep THEN st ELSE Run(Step(st))

\* The run of task t ended in st: the shared state it leaves, its frame when it
\* sleeps, and resp: the call, its status, the rows before this run (found)
\* and the rows the handler read (read).
Commit(t, st) ==
    /\ cache' = st.cache
    /\ requests' = st.requests
    /\ rows' = st.rows
    /\ pending' = [pending EXCEPT ![t] = IF st.asleep THEN <<Suspended(st)>> ELSE <<>>]
    /\ resp' = IF st.asleep
               THEN [op |-> "suspended", task |-> t, call |-> st.op, pc |-> st.pc]
               ELSE [op |-> st.op, task |-> t, status |-> st.status, raised |-> st.raised,
                     rowId |-> st.rowId, rowIds |-> st.rowIds, log_id |-> st.log_id,
                     body |-> st.body, found |-> rows, read |-> st.read, at |-> now]

\* The rows the sleeping handlers may still append.
PendingAppends ==
    LET n(t) == IF pending[t] = <<>> THEN 0 ELSE Len(pending[t][1].items)
        RECURSIVE Sum(_)
        Sum(k) == IF k = 0 THEN 0 ELSE n(k) + Sum(k - 1)
    IN  Sum(NTasks)

\* A request arrives: task t runs its handler up to its first sleep, or to its end.
HandlerCall(t, req) ==
    /\ pending[t] = <<>>
    /\ Len(rows) + PendingAppends + Len(req.items) <= MaxRows
    /\ Commit(t, Run(Start(req)))
    /\ UNCHANGED <<now, lastSet, admitted, waiting, headers, writable>>

\* The sleep of task t is over: `return await self.acquire()`, and on from there.
HandlerWake(t) ==
    /\ pending[t] # <<>>
    /\ now >= pending[t][1].wake
    /\ Commit(t, Run(Resume(pending[t][1])))
    /\ UNCHANGED <<now, lastSet, admitted, waiting, headers, writable>>

\* The clock of the handlers running together.
Elapse ==
    /\ now < MaxClock
    /\ now' = now + 1
    /\ resp' = [op |-> "tick"]
    /\ UNCHANGED <<cache, requests, lastSet, admitted, waiting, headers, rows, writable, pending>>

\* The requests that arrive: one holder, the rowIds of the sheet.
HandlerRequests ==
    {Request("get_next_prompt", 0, "", {}, <<>>)}
    \cup {Request("lock", r, "L1", {}, <<>>) : r \in 1..HandlerRows}
    \cup {Request("clear", r, "", {}, <<>>) : r \in 1..HandlerRows}
    \cup {Request("markUsed", 0, "L1", {r}, <<>>) : r \in 1..HandlerRows}
    \cup {Request("insert", 0, "", {}, <<item>>) : item \in {i \in InsertItems : i.topic = "A"}}

\* The sheets the handlers start from: unused rows with topics.
HandlerSheets ==
    {s \in RestSheets :
        /\ Len(s) \in 1..HandlerRows
        /\ \A i \in 1..Len(s) : s[i][IdxMap(DocHeaders)["used"] + 1] = ""
        /\ \A i \in 1..Len(s) : s[i][IdxMap(DocHeaders)["topic"] + 1] # ""}

InitHandlers ==
    /\ now = 1
    /\ headers = DocHeaders
    /\ rows \in HandlerSheets
    /\ cache = WarmCache([headers |-> headers, rows |-> rows])
    /\ requests = <<0>>
    /\ lastSet = EmptyDict
    /\ admitted = <<>>
    /\ waiting = [t \in Tasks |-> -1]
    /\ writable = TRUE
    /\ pending = [t \in Tasks |-> <<>>]
    /\ resp = [op |-> "init"]

NextHandlers ==
    \/ \E t \in Tasks, req \in HandlerRequests : HandlerCall(t, req)
    \/ \E t \in Tasks : HandlerWake(t)
    \/ Elapse

SpecHandlers == InitHandlers /\ [][NextHandlers]_vars

\* ------------------------------------------------------------------ SheetsCache, called on its own
CacheKeys == {MetadataKey, UnusedKey}
CachePatterns == {"", "unused_rows", "metadata", SHEET_NAME, "rows_x"}
CacheData == {[row_count |-> 1], [row_count |-> 2]}

CacheSetCall(k, v) ==
    /\ cache' = SheetsCache_set(cache, k, v, now)
    /\ lastSet' = DictSet(lastSet, k, [data |-> v, timestamp |-> now])
    /\ resp' = [op |-> "set", key |-> k]
    /\ UNCHANGED <<now, requests, admitted, waiting, headers, rows, writable, pending>>

CacheGetCall(k) ==
    LET r == SheetsCache_get(cache, k, now)
    IN  /\ cache' = r.cache
        /\ resp' = [op |-> "get", key |-> k, data |-> r.data]
        /\ UNCHANGED <<now, requests, lastSet, admitted, waiting, headers, rows, writable, pending>>

CacheInvalidateCall(p) ==
    /\ cache' = SheetsCache_invalidate(cache, p)
    /\ lastSet' = IF p = "" THEN EmptyDict
                  ELSE [k \in {x \in DOMAIN lastSet :
                                  \A a \in 0..(Len(x) - Len(p)) :
                                      x # SubSeq(x, 1, a) \o p \o SubSeq(x, a + Len(p) + 1, Len(x))}
                          |-> lastSet[k]]
    /\ resp' = [op |-> "invalidate", pattern |-> p]
    /\ UNCHANGED <<now, requests, admitted, waiting, headers, rows, writable, pending>>

InitCache ==
    /\ now = 0
    /\ cache = EmptyDict
    /\ requests = <<>>
    /\ lastSet = EmptyDict
    /\ admitted = <<>>
    /\ waiting = [t \in Tasks |-> -1]
    /\ writable = TRUE
    /\ pending = [t \in Tasks |-> <<>>]
    /\ headers = DocHeaders
    /\ rows = <<>>
    /\ resp = [op |-> "init"]

NextCache ==
    \/ \E k \in CacheKeys, v \in CacheData : CacheSetCall(k, v)
    \/ \E k \in CacheKeys : CacheGetCall(k)
    \/ \E p \in CachePatterns : CacheInvalidateCall(p)
    \/ Tick

SpecCache == InitCache /\ [][NextCache]_vars

\* ------------------------------------------------------------------ RateLimiter.acquire, concurrent callers
\* One pass through acquire() by task t, from `now = time.time()` to the sleep
\* or to the append: no await lies in between, so the pass is one step.
AcquirePass(t) ==
    LET kept == Prune(requests, now)
    IN  IF AtBudget(kept)
        THEN /\ requests' = kept
             /\ waiting' = [waiting EXCEPT ![t] = now + WaitTime(kept, now)]
             /\ resp' = [op |-> "acquire", task |-> t, admitted |-> FALSE]
             /\ UNCHANGED admitted
        ELSE /\ requests' = Append(kept, now)
             /\ admitted' = Append(admitted, now)
             /\ waiting' = [waiting EXCEPT ![t] = -1]
             /\ resp' = [op |-> "acquire", task |-> t, admitted |-> TRUE]

\* Task t calls acquire().
AcquireCall(t) ==
    /\ waiting[t] = -1
    /\ AcquirePass(t)
    /\ UNCHANGED <<now, cache, lastSet, headers, rows, writable, pending>>

\* asyncio.sleep(wait_time) is over: `return await self.acquire()`.
AcquireRetry(t) ==
    /\ waiting[t] >= 0
    /\ now >= waiting[t]
    /\ AcquirePass(t)
    /\ UNCHANGED <<now, cache, lastSet, headers, rows, writable, pending>>

NextRL ==
    \/ \E t \in Tasks : AcquireCall(t)
    \/ \E t \in Tasks : AcquireRetry(t)
    \/ Tick

SpecRL == InitCache /\ [][NextRL]_vars

\* ------------------------------------------------------------------ RateLimiter.acquire, the clock running on
\* The callers of acquire() with a clock that never stops.  acquire() reads
\* the clock only in differences (now - req_time, and the length of its sleep),
\* so once the clock has reached MaxTick the passing of a second is written as
\* every kept time moving one second back: the timestamps of the log (one that
\* has left the window stays where the next pruning drops it) and the times the
\* sleeps end.
MoveBack(t, least) == IF t - 1 < least THEN least ELSE t - 1

ClockRuns ==
    /\ IF now < MaxTick
       THEN /\ now' = now + 1
            /\ UNCHANGED <<requests, waiting>>
       ELSE /\ now' = now
            /\ requests' = [k \in 1..Len(requests) |-> MoveBack(requests[k], now - window)]
            /\ waiting' = [t \in Tasks |->
                             IF waiting[t] < 0 THEN waiting[t] ELSE MoveBack(waiting[t], 0)]
    /\ resp' = [op |-> "tick"]
    /\ UNCHANGED <<cache, lastSet, admitted, headers, rows, writable, pending>>

\* One pass through acquire() by task t: admitted, or asleep until a.wake.
Pass(t, a) ==
    /\ requests' = a.requests
    /\ waiting' = [waiting EXCEPT ![t] = IF a.admitted THEN -1 ELSE a.wake]
    /\ resp' = [op |-> "acquire", task |-> t, admitted |-> a.admitted,
                slept |-> waiting[t] >= 0,
                oldest |-> IF requests = <<>> THEN -1 ELSE requests[1]]
    /\ UNCHANGED <<now, cache, lastSet, admitted, headers, rows, writable, pending>>

\* Task t calls acquire().
Arrive(t) ==
    /\ waiting[t] = -1
    /\ Pass(t, AcquireOnce(requests, now))

\* asyncio.sleep(wait_time) of task t is over: `return await self.acquire()`.
Retry(t) ==
    /\ waiting[t] >= 0
    /\ now >= waiting[t]
    /\ Pass(t, AcquireOnce(requests, now))

NextLive ==
    \/ \E t \in Tasks : Arrive(t)
    \/ \E t \in Tasks : Retry(t)
    \/ ClockRuns

\* The clock advances, and the event loop runs a task whose sleep is over;
\* whether and when new callers arrive is left open.
SpecLive ==
    /\ InitCache
    /\ [][NextLive]_vars
    /\ WF_vars(ClockRuns)
    /\ \A t \in Tasks : WF_vars(Retry(t))

\* ------------------------------------------------------------------ a client's script
\* lock(r, x), then markUsed([r], x), then clear(r), for a row r that is unused
\* at the start; resp.step numbers the calls of the script.
ScriptLock(rowId, log_id) ==
    /\ AtRest
    /\ \E i \in 1..Len(rows) :
          /\ rows[i][IdxMap(headers)["rowId"] + 1] = ToString(rowId)
          /\ rows[i][IdxMap(headers)["used"] + 1] = ""
    /\ Returns(mark_prompt_locked(Env, Sheet, rowId, log_id),
               [op |-> "lock", rowId |-> rowId, log_id |-> log_id, step |-> 1])

ScriptMarkUsed ==
    /\ resp.op = "lock"
    /\ Returns(mark_prompt_used(Env, Sheet, {resp.rowId}, resp.log_id),
               [op |-> "markUsed", rowId |-> resp.rowId, rowIds |-> {resp.rowId},
                log_id |-> resp.log_id, step |-> 2])

ScriptClear ==
    /\ resp.op = "markUsed"
    /\ Returns(clear_prompt_mark(Env, Sheet, resp.rowId),
               [op |-> "clear", rowId |-> resp.rowId, step |-> 3])

NextClient ==
    \/ \E rowId \in RowIds, log_id \in LogIds : ScriptLock(rowId, log_id)
    \/ ScriptMarkUsed
    \/ ScriptClear

SpecClient == Init /\ [][NextClient]_vars

\* ------------------------------------------------------------------ a client's cycle
\* One client, nothing else running: get_next_prompt, then lock of the rowId of
\* the batch's first row, then markUsed of all rowIds of the batch, and again,
\* until get_next_prompt returns an empty batch.  resp.start is the table the
\* cycle started from and resp.batch the rowIds of the batch in hand.

\* The call returned r, within the time a cycle may take.
CycleReturns(r, call) ==
    /\ r.e.now <= MaxCycleTime
    /\ now' = r.e.now
    /\ cache' = r.e.cache
    /\ requests' = r.e.requests
    /\ headers' = r.sh.headers
    /\ rows' = r.sh.rows
    /\ resp' = call @@ [status |-> r.status, raised |-> r.raised, body |-> r.body,
                        acq |-> r.e.acq, rem |-> r.e.rem, batches |-> r.e.batches,
                        found |-> rows, header |-> headers, at |-> now]
    /\ UNCHANGED <<lastSet, admitted, waiting, writable, pending>>

\* The rowIds of the batch get_next_prompt returned.
BatchRowIds(r) == [k \in 1..Len(r.body.prompts) |-> r.body.prompts[k].rowId[1]]

CycleNext ==
    /\ \/ resp.op = "init"
       \/ resp.op = "markUsed" /\ resp.status = 200
    /\ LET Got(r) ==
               CycleReturns(r, [op |-> "get_next_prompt",
                                start |-> IF resp.op = "init" THEN rows ELSE resp.start,
                                batch |-> IF r.status = 200 THEN BatchRowIds(r) ELSE <<>>])
       IN  Got(get_next_prompt(Env, Sheet))

CycleLock(log_id) ==
    /\ resp.op = "get_next_prompt"
    /\ resp.status = 200
    /\ resp.batch # <<>>
    /\ CycleReturns(mark_prompt_locked(Env, Sheet, resp.batch[1], log_id),
                    [op |-> "lock", rowId |-> resp.batch[1], log_id |-> log_id,
                     start |-> resp.start, batch |-> resp.batch])

CycleMarkUsed ==
    /\ resp.op = "lock"
    /\ resp.status = 200
    /\ CycleReturns(mark_prompt_used(Env, Sheet, Range(resp.batch), resp.log_id),
                    [op |-> "markUsed", rowIds |-> Range(resp.batch), log_id |-> resp.log_id,
                     start |-> resp.start, batch |-> resp.batch])

\* The tables a cycle starts from: every row unused, with a topic, the rowIds distinct.
CycleSheets ==
    {s \in RestSheets :
        /\ s # <<>>
        /\ \A i \in 1..Len(s) : s[i][IdxMap(DocHeaders)["used"] + 1] = ""
        /\ \A i \in 1..Len(s) : s[i][IdxMap(DocHeaders)["topic"] + 1] # ""}

InitCycle ==
    /\ now = 1
    /\ headers = DocHeaders
    /\ rows \in CycleSheets
    /\ cache = WarmCache([headers |-> headers, rows |-> rows])
    /\ requests = <<0>>
    /\ lastSet = EmptyDict
    /\ admitted = <<>>
    /\ waiting = [t \in Tasks |-> -1]
    /\ writable = TRUE
    /\ pending = [t \in Tasks |-> <<>>]
    /\ resp = [op |-> "init"]

NextCycle ==
    \/ CycleNext
    \/ \E log_id \in LogIds : CycleLock(log_id)
    \/ CycleMarkUsed

SpecCycle == InitCycle /\ [][NextCycle]_vars

\* ------------------------------------------------------------------ lock of a row of the batch
\* get_next_prompt on a sheet as earlier calls left it, then lock of the
\* rowId of any row of the batch, nothing running in between.
BatchNext ==
    /\ AtRest
    /\ LET Got(r) ==
               Returns(r, [op |-> "get_next_prompt",
                           batch |-> IF r.status = 200 THEN BatchRowIds(r) ELSE <<>>])
       IN  Got(get_next_prompt(Env, Sheet))

BatchLock(k, log_id) ==
    /\ resp.op = "get_next_prompt"
    /\ resp.status = 200
    /\ k \in 1..Len(resp.batch)
    /\ Returns(mark_prompt_locked(Env, Sheet, resp.batch[k], log_id),
               [op |-> "lock", rowId |-> resp.batch[k], log_id |-> log_id,
                batch |-> resp.batch, block |-> resp.body.block])

NextBatch ==
    \/ BatchNext
    \/ \E k \in 1..MaxRows, log_id \in LogIds : BatchLock(k, log_id)

SpecBatch == Init /\ [][NextBatch]_vars

\* ------------------------------------------------------------------ col_idx_to_a1, called on its own
ColumnIdxs == 0..MaxColIdx

A1Call(col_idx) ==
    /\ resp' = [op |-> "col_idx_to_a1", col_idx |-> col_idx, letters |-> col_idx_to_a1(col_idx)]
    /\ UNCHANGED <<now, cache, requests, lastSet, admitted, waiting, headers, rows, writable, pending>>

NextA1 == \E col_idx \in ColumnIdxs : A1Call(col_idx)

SpecA1 == InitCache /\ [][NextA1]_vars

\* ------------------------------------------------------------------ get_next_prompt over rows with keywords
\* The names of the keyword columns, one of them capitalised.
KeywordNames == [i \in 1..KeywordColumns |-> IF i = 3 THEN "Keyword3" ELSE "keyword" \o ToString(i)]

\* keyword2 stands before keyword1, and other columns lie between them.
KeywordHeaders ==
    <<"rowId", KeywordNames[2], "topic", "prompt", "title", KeywordNames[1]>>
    \o SubSeq(KeywordNames, 3, KeywordColumns) \o <<"used", "log_id", "timestamp">>

\* The keyword cells of a row, by the number of the column's name: none; a few
\* with a repeat and a blank cell; nine different ones; all different.
KeywordCells ==
    { [i \in 1..KeywordColumns |-> ""],
      [i \in 1..KeywordColumns |->
          IF i \in {1, 3} THEN "cat" ELSE IF i = 2 THEN "dog" ELSE IF i = 4 THEN " " ELSE ""],
      [i \in 1..KeywordColumns |-> IF i <= 9 THEN ToString(i) ELSE ""],
      [i \in 1..KeywordColumns |-> ToString(i)] }

KeywordPrompts ==
    {"", "a cute cat", "A (cute) cat, a CAT.", "... , dog",
     "one two three four five six seven eight nine ten eleven twelve"}

KeywordRow(rowId, kw, prompt) ==
    [c \in 1..Len(KeywordHeaders) |->
        LET h == KeywordHeaders[c]
        IN  IF h = "rowId" THEN ToString(rowId)
            ELSE IF h = "topic" THEN "A"
            ELSE IF h = "prompt" THEN prompt
            ELSE IF \E i \in 1..KeywordColumns : KeywordNames[i] = h
                 THEN kw[CHOOSE i \in 1..KeywordColumns : KeywordNames[i] = h]
            ELSE ""]

\* The service at rest over a sheet of unused rows of one topic.
InitKeywords ==
    /\ now = 1
    /\ headers = KeywordHeaders
    /\ \E n \in 0..KeywordRows :
          rows \in { [i \in 1..n |-> KeywordRow(i, kw[i], pr[i])] :
                        kw \in [1..n -> KeywordCells], pr \in [1..n -> KeywordPrompts] }
    /\ cache = WarmCache([headers |-> headers, rows |-> rows])
    /\ requests = <<0>>
    /\ lastSet = EmptyDict
    /\ admitted = <<>>
    /\ waiting = [t \in Tasks |-> -1]
    /\ writable = TRUE
    /\ pending = [t \in Tasks |-> <<>>]
    /\ resp = [op |-> "init"]

SpecKeywords == InitKeywords /\ [][GetNextPrompt]_vars

\* ------------------------------------------------------------------ the cached reads, called on their own
\* The read returned r.  resp records what it returned and cost, and the cache
\* and the time it started with.
ReadReturns(r, call) ==
    /\ r.e.now <= MaxTime
    /\ now' = r.e.now
    /\ cache' = r.e.cache
    /\ requests' = r.e.requests
    /\ resp' = call @@ [ok |-> r.ok, val |-> IF r.ok THEN <<r.val>> ELSE <<>>,
                        acq |-> r.e.acq, rem |-> r.e.rem, had |-> cache, at |-> now]
    /\ UNCHANGED <<lastSet, admitted, waiting, headers, rows, writable, pending>>

GetSheetMetadata ==
    /\ now <= MaxTime
    /\ ReadReturns(get_sheet_metadata(Env, Sheet),
                   [op |-> "get_sheet_metadata", key |-> MetadataKey])

GetUnusedRowsByTopic ==
    /\ now <= MaxTime
    /\ ReadReturns(get_unused_rows_by_topic(Env, Sheet),
                   [op |-> "get_unused_rows_by_topic", key |-> UnusedKey])

\* The reads in any order while the clock runs: entries are cached, served and expire.
NextRead ==
    \/ GetSheetMetadata
    \/ GetUnusedRowsByTopic
    \/ Tick

SpecRead == Init /\ [][NextRead]_vars

\* ------------------------------------------------------------------ reading the sheet, for the properties
\* The cell of a data row under the header `name`.
Field(row, name) == row[IdxMap(headers)[name] + 1]

\* The row with other marks: used, log_id and timestamp replaced.
Marked(row, used, log_id, timestamp) ==
    [c \in 1..Len(row) |->
        IF headers[c] = "used" THEN used
        ELSE IF headers[c] = "log_id" THEN log_id
        ELSE IF headers[c] = "timestamp" THEN timestamp
        ELSE row[c]]

\* The places (1 = physical row 2) of the rows whose rowId cell reads as rowId.
Places(rs, rowId) == {i \in 1..Len(rs) : Field(rs[i], "rowId") = ToString(rowId)}

\* The topics of the rows with that rowId.
TopicsOf(rs, rowId) == {Field(rs[i], "topic") : i \in Places(rs, rowId)}

\* The times a call that started at resp.at and has returned can have read the clock.
CallTimes == {FormatTime(t) : t \in resp.at..now}

\* ------------------------------------------------------------------ C1
\* The run get_next_prompt is to return from the data rows rs: it starts at the
\* first row whose used cell is empty and holds every row from there on up to,
\* not including, the first row with a used cell that is not empty or with
\* another topic.
RunOf(rs) ==
    LET unused == {i \in 1..Len(rs) : Field(rs[i], "used") = ""}
    IN  IF unused = {} THEN {}
        ELSE LET first == CHOOSE i \in unused : \A j \in unused : i <= j
             IN  {i \in first..Len(rs) :
                     \A j \in first..i : /\ Field(rs[j], "used") = ""
                                         /\ Field(rs[j], "topic") = Field(rs[first], "topic")}

\* C1: get_next_prompt returns exactly the maximal contiguous run that starts
\* at the first data row with an empty used field and goes on while the rows
\* have an empty used field and the topic of that first row, one entry per row
\* in physical order; a later row of that topic cut off from the run is not
\* returned; the batch is empty exactly when no data row has an empty used field.
C1_NextBatchIsMaximalRun ==
    resp.op = "get_next_prompt" =>
        /\ resp.status = 200
        /\ rows = resp.found
        /\ {resp.body.block[k] : k \in 1..Len(resp.body.block)} = RunOf(resp.found)
        /\ \A k \in 1..(Len(resp.body.block) - 1) : resp.body.block[k] < resp.body.block[k + 1]
        /\ Len(resp.body.prompts) = Len(resp.body.block)
        /\ \A k \in 1..Len(resp.body.block) :
              LET row == resp.found[resp.body.block[k]]
              IN  /\ resp.body.prompts[k].rowId = <<IntOf(Field(row, "rowId"))>>
                  /\ resp.body.prompts[k].topic = Field(row, "topic")
                  /\ resp.body.prompts[k].prompt = Field(row, "prompt")
        /\ (resp.body.prompts = <<>>
              <=> \A i \in 1..Len(resp.found) : Field(resp.found[i], "used") # "")

\* A batch of the first row alone, although the third row has its topic and is
\* unused too: a row of another topic lies between them.
C1_Witness ==
    /\ resp.op = "get_next_prompt"
    /\ Len(resp.found) = 3
    /\ resp.body.block = <<1>>
    /\ Field(resp.found[2], "used") = ""
    /\ Field(resp.found[2], "topic") # Field(resp.found[1], "topic")
    /\ Field(resp.found[3], "used") = ""
    /\ Field(resp.found[3], "topic") = Field(resp.found[1], "topic")

\* ------------------------------------------------------------------ C2
\* C2: after a lock(rowId, log_id) that succeeds, every row that has the topic
\* of rowId's row and had an empty used field has used = LOCKED and the given
\* log_id, at its own place in the sheet; the rows of other topics are as they
\* were; the writes went out as one batchUpdate.
C2_LockMarksTopicRows ==
    (resp.op = "lock" /\ resp.status = 200) =>
        /\ Len(rows) = Len(resp.found)
        /\ TopicsOf(resp.found, resp.rowId) # {}
        /\ \A i \in 1..Len(resp.found) :
              IF Field(resp.found[i], "topic") \in TopicsOf(resp.found, resp.rowId)
              THEN Field(resp.found[i], "used") = "" =>
                     \E t \in CallTimes : rows[i] = Marked(resp.found[i], "LOCKED", resp.log_id, t)
              ELSE rows[i] = resp.found[i]
        /\ resp.batches = 1
        /\ resp.body.locked_cells >= 1

\* lock(rowId, L2) marked two unused rows for L2 in a sheet that has another
\* topic too, and the place of one of them is not the place its rowId numbers.
C2_Witness ==
    /\ resp.op = "lock"
    /\ resp.status = 200
    /\ resp.log_id = "L2"
    /\ \E i, j \in 1..Len(rows) :
          /\ i # j
          /\ Field(resp.found[i], "used") = "" /\ Field(resp.found[j], "used") = ""
          /\ Field(rows[i], "used") = "LOCKED" /\ Field(rows[j], "used") = "LOCKED"
          /\ Field(rows[i], "log_id") = "L2" /\ Field(rows[j], "log_id") = "L2"
          /\ Field(rows[i], "rowId") # ToString(i + 1)
    /\ \E i \in 1..Len(rows) : Field(rows[i], "topic") \notin TopicsOf(resp.found, resp.rowId)

\* ------------------------------------------------------------------ C3
\* C3: lock skips the rows that are already LOCKED: a row whose used field is
\* LOCKED before the call keeps its used, log_id and timestamp cells.
C3_LockedRowsKept ==
    resp.op = "lock" =>
        \A i \in 1..Len(resp.found) :
            Field(resp.found[i], "used") = "LOCKED" =>
                /\ Field(rows[i], "used") = Field(resp.found[i], "used")
                /\ Field(rows[i], "log_id") = Field(resp.found[i], "log_id")
                /\ Field(rows[i], "timestamp") = Field(resp.found[i], "timestamp")

\* ------------------------------------------------------------------ C4
\* The move of a row from the state u to the state v by the call `op`, as the
\* state machine of the rows draws it; the states are the used marks in capitals.
AlongStateMachine(op, u, v) ==
    \/ op = "lock" /\ u = "" /\ v = "LOCKED"
    \/ op = "markUsed" /\ u = "LOCKED" /\ v = "YES"
    \/ op = "clear" /\ u \in {"", "LOCKED", "FAILED"} /\ v = ""

MoveOf(op, u, v) ==
    \/ op = "lock" /\ Lower(u) # "yes" /\ v = "LOCKED"
    \/ op = "markUsed" /\ v = "yes"
    \/ op = "clear" /\ Upper(u) \in {"LOCKED", "FAILED"} /\ v = ""

C5_ClearResetsUsedRow ==
    /\ ("step" \in DOMAIN resp /\ resp.step = 2) =>
          \A i \in Places(rows, resp.rowId) : Field(rows[i], "used") = "yes"
    /\ ("step" \in DOMAIN resp /\ resp.step = 3) =>
          \A i \in Places(rows, resp.rowId) : Field(rows[i], "used") = ""

\* C5, amended: for an unused row r, lock(r, x) then markUsed([r], x) leaves
\* the row with used = "yes", log_id = x; the clear(r) that follows leaves the
\* row as it is, used = "yes": clear blanks only rows whose used field is
\* empty, LOCKED or FAILED.
C5_ClearKeepsUsedRow ==
    /\ ("step" \in DOMAIN resp /\ resp.step = 2) =>
          /\ resp.status = 200
          /\ Places(rows, resp.rowId) # {}
          /\ \A i \in Places(rows, resp.rowId) :
                Field(rows[i], "used") = "yes" /\ Field(rows[i], "log_id") = resp.log_id
    /\ ("step" \in DOMAIN resp /\ resp.step = 3) =>
          /\ Places(rows, resp.rowId) # {}
          /\ \A i \in Places(rows, resp.rowId) :
                /\ Field(resp.found[i], "used") = "yes"
                /\ rows[i] = resp.found[i]

\* The script has run to its end, clear(r) returned 200 and blanked another
\* row of the topic, and row r is still "yes".
C5_Witness ==
    /\ "step" \in DOMAIN resp
    /\ resp.step = 3
    /\ resp.status = 200
    /\ \E i \in Places(rows, resp.rowId) : Field(rows[i], "used") = "yes"
    /\ \E j \in 1..Len(rows) : Field(resp.found[j], "used") = "LOCKED" /\ Field(rows[j], "used") = ""

\* ------------------------------------------------------------------ C6
\* C6: markUsed(rowIds, log_id) writes used = "yes", the given log_id and the
\* time of the call to every row whose rowId cell is in rowIds, at the row's
\* own place; it leaves every other row as it was; it returns marked = the
\* number of the rows it wrote, in one batchUpdate, and with no row to write
\* it returns 0 and sends no batchUpdate.
C6_MarkUsedWritesNamedRows ==
    resp.op = "markUsed" =>
        LET named == UNION {Places(resp.found, r) : r \in resp.rowIds}
        IN  /\ resp.status = 200
            /\ Len(rows) = Len(resp.found)
            /\ \A i \in 1..Len(resp.found) :
                  IF i \in named
                  THEN \E t \in CallTimes : rows[i] = Marked(resp.found[i], "yes", resp.log_id, t)
                  ELSE rows[i] = resp.found[i]
            /\ resp.body.marked = Cardinality(named)
            /\ resp.batches = (IF named = {} THEN 0 ELSE 1)

\* markUsed named two rows, each at a place that its rowId does not number,
\* wrote both for L2 and left the third row alone.
C6_Witness ==
    /\ resp.op = "markUsed"
    /\ resp.log_id = "L2"
    /\ resp.body.marked = 2
    /\ Len(rows) = 3
    /\ \E i \in 1..3 :
          /\ rows[i] = resp.found[i]
          /\ \A j \in (1..3) \ {i} :
                /\ Field(rows[j], "used") = "yes" /\ Field(rows[j], "log_id") = "L2"
                /\ Field(resp.found[j], "used") # "yes"
                /\ Field(rows[j], "rowId") \notin {ToString(j), ToString(j + 1)}

\* ------------------------------------------------------------------ C7
\* The rows clear(rowId) is to blank: those with the topic of rowId's row whose
\* used field is, in any case of the letters, empty, LOCKED or FAILED.
ClearSet(rs, rowId) ==
    {i \in 1..Len(rs) :
        /\ Field(rs[i], "topic") \in TopicsOf(rs, rowId)
        /\ Upper(Field(rs[i], "used")) \in {"", "LOCKED", "FAILED"}}

\* C7: clear(rowId) blanks the used, log_id and timestamp cells of exactly the
\* rows that have the topic of rowId's row and a used field that is, without
\* regard to case, empty, LOCKED or FAILED; the rows of that topic with used =
\* "yes" and the rows of other topics are left as they were.
C7_ClearBlanksTopicRows ==
    resp.op = "clear" =>
        /\ Len(rows) = Len(resp.found)
        /\ \A i \in 1..Len(resp.found) :
              IF resp.status = 200 /\ i \in ClearSet(resp.found, resp.rowId)
              THEN rows[i] = Marked(resp.found[i], "", "", "")
              ELSE rows[i] = resp.found[i]
        /\ resp.status = 200 <=> TopicsOf(resp.found, resp.rowId) \notin {{}, {""}}

\* clear blanked a row marked "failed" in small letters and a LOCKED row of
\* the same topic, and left a "yes" row of that topic and a row of another
\* topic as they were.
C7_Witness ==
    /\ resp.op = "clear"
    /\ resp.status = 200
    /\ \E i, j \in 1..Len(rows) :
          /\ Field(resp.found[i], "used") = "failed" /\ Field(rows[i], "used") = ""
          /\ Field(rows[i], "log_id") = "" /\ Field(rows[i], "timestamp") = ""
          /\ Field(resp.found[j], "topic") = Field(resp.found[i], "topic")
          /\ Field(resp.found[j], "used") = "yes" /\ rows[j] = resp.found[j]
    /\ \E k \in 1..Len(rows) :
          /\ Field(resp.found[k], "topic") \notin TopicsOf(resp.found, resp.rowId)
          /\ Field(resp.found[k], "used") # ""
          /\ rows[k] = resp.found[k]

\* ------------------------------------------------------------------ C9
\* C9: every remote call a handler issues is preceded by one acquire() of its
\* own: when the handler returns, it has issued as many remote calls as it
\* had admissions.
C9_OneAcquirePerRemoteCall ==
    resp.op \in {"get_next_prompt", "lock", "clear", "markUsed", "insert"} =>
        resp.rem = resp.acq

\* ------------------------------------------------------------------ C8
\* C8: whatever the callers of acquire() and their interleaving, at every
\* moment at most max_requests of the timestamps acquire() has admitted lie
\* within the trailing window, and the log never holds more than max_requests
\* entries.
C8_WindowHoldsBudget ==
    /\ Cardinality({k \in 1..Len(admitted) : now - admitted[k] < window}) <= max_requests
    /\ Len(requests) <= max_requests
    /\ \A k \in 1..Len(requests) : \E j \in 1..Len(admitted) : admitted[j] = requests[k]

\* A caller that found the budget spent has slept, the window has passed, and
\* its retry was admitted: the admissions so far outnumber the budget.
C8_Witness ==
    /\ resp.op = "acquire"
    /\ resp.admitted
    /\ Len(admitted) > max_requests
    /\ Len(requests) = 1
    /\ now > 0

\* ------------------------------------------------------------------ C10
\* C10: get(key) returns the value of the latest set(key, v) that no
\* invalidate has removed since, if and only if less than ttl has passed
\* since that set; otherwise it returns nothing, and the cache holds no entry
\* for the key after it.
C10_GetWithinTtl ==
    resp.op = "get" =>
        LET live == /\ resp.key \in DOMAIN lastSet
                    /\ now - lastSet[resp.key].timestamp < ttl
        IN  /\ live => resp.data = <<lastSet[resp.key].data>>
            /\ ~live => resp.data = <<>> /\ resp.key \notin DOMAIN cache

\* A get exactly ttl after the set of its key: it returned nothing and the
\* entry is gone, while the entry of the other key, set later, is still there.
C10_Witness ==
    /\ resp.op = "get"
    /\ resp.key \in DOMAIN lastSet
    /\ now - lastSet[resp.key].timestamp = ttl
    /\ resp.data = <<>>
    /\ resp.key \notin DOMAIN cache
    /\ DOMAIN cache # {}

\* ------------------------------------------------------------------ C11
\* The read found a non-expired entry under its cache key.
ReadHit ==
    /\ resp.op \in {"get_sheet_metadata", "get_unused_rows_by_topic"}
    /\ resp.key \in DOMAIN resp.had
    /\ Fresh(resp.had[resp.key], resp.at)

\* C11: a read that finds a non-expired entry under its cache key returns the
\* cached value without an acquire() and without a remote call, whatever the
\* entry holds, a grouping with no topics included.
C11_HitCostsNothing ==
    ReadHit =>
        /\ resp.acq = 0
        /\ resp.rem = 0
        /\ resp.val = <<resp.had[resp.key].data>>

\* The same for the entries that hold something: the metadata, and a grouping
\* with at least one topic.
C11_FilledHitCostsNothing ==
    (ReadHit /\ resp.had[resp.key].data # <<>>) =>
        /\ resp.acq = 0
        /\ resp.rem = 0
        /\ resp.val = <<resp.had[resp.key].data>>

\* get_unused_rows_by_topic found a fresh grouping with no topics and fetched again.
C11_EmptyGroupingRefetched ==
    /\ ReadHit
    /\ resp.op = "get_unused_rows_by_topic"
    /\ resp.had[resp.key].data = <<>>
    /\ resp.acq > 0
    /\ resp.rem > 0

\* ------------------------------------------------------------------ C12
\* The handler reached its remote write and the store raised on it.
WriteRaised ==
    /\ resp.op \in {"lock", "markUsed", "clear", "insert"}
    /\ resp.raised = 503

\* C12: when the remote write of lock, markUsed, clear or insert raises, the
\* cache holds no entry as the handler returns its error.
C12_WriteErrorLeavesCacheCold ==
    WriteRaised => (resp.status = 500 /\ DOMAIN cache = {})

\* What the handlers leave in the cache when their write raises: insert
\* nothing; markUsed and clear the metadata they fetched after invalidating;
\* lock the metadata and the grouping it has just read.
C12_WriteErrorLeavesReads ==
    WriteRaised =>
        /\ resp.status = 500
        /\ rows = resp.found
        /\ DOMAIN cache =
              CASE resp.op = "insert" -> {}
                [] resp.op = "lock" -> {MetadataKey, UnusedKey}
                [] OTHER -> {MetadataKey}

\* ------------------------------------------------------------------ C13
\* No row of rs that any reading counts as unused has this rowId: the rowId is
\* in no row, or only in rows marked "yes".
NoUnusedRow(rs, rowId) ==
    \A i \in Places(rs, rowId) : Lower(Strip(Field(rs[i], "used"))) = "yes"

\* C13: lock(rowId, log_id) with a rowId that no unused row has, and
\* clear(rowId) with a rowId that no row has, reach the caller as HTTP 404.
C13_NotFoundIs404 ==
    /\ (resp.op = "lock" /\ NoUnusedRow(resp.found, resp.rowId)) => resp.status = 404
    /\ (resp.op = "clear" /\ Places(resp.found, resp.rowId) = {}) => resp.status = 404

\* What the caller gets: the 404 is raised inside the handler's try block and
\* `except Exception` answers 500; the sheet is as it was.
C13_NotFoundIs500 ==
    /\ (resp.op = "lock" /\ NoUnusedRow(resp.found, resp.rowId)) =>
          (resp.raised = 404 /\ resp.status = 500 /\ rows = resp.found)
    /\ (resp.op = "clear" /\ Places(resp.found, resp.rowId) = {}) =>
          (resp.raised = 404 /\ resp.status = 500 /\ rows = resp.found)

\* lock and clear raised their 404 and the caller got a 500.
C13_NotFoundRaised ==
    /\ resp.op \in {"lock", "clear"}
    /\ resp.raised = 404
    /\ resp.status = 500

\* ------------------------------------------------------------------ C14
\* The greatest rowId of the data rows rs, 0 when there is none.
MaxId(rs) ==
    LET ids == {IntOf(Field(rs[i], "rowId")) : i \in 1..Len(rs)}
    IN  IF ids = {} THEN 0 ELSE CHOOSE m \in ids : \A x \in ids : x <= m

\* No two rows of rs have the same rowId.
DistinctIds(rs) ==
    \A i \in 1..Len(rs) : \A j \in 1..Len(rs) :
        i # j => Field(rs[i], "rowId") # Field(rs[j], "rowId")

\* C14: an insert of N rows that runs alone on a table whose greatest rowId is
\* M (0 for a header-only table) leaves the rows it found as they were and
\* appends N rows with the rowIds M+1 .. M+N in input order, each with the
\* payload's topic, prompt and title and with used, log_id and timestamp
\* empty; the rowIds of the table stay distinct over any sequence of such inserts.
C14_InsertNumbersRows ==
    (resp.op = "insert" /\ resp.status = 200) =>
        LET M == MaxId(resp.found)
            N == Len(resp.items)
            old == Len(resp.found)
        IN  /\ Len(rows) = old + N
            /\ SubSeq(rows, 1, old) = resp.found
            /\ \A k \in 1..N :
                  /\ Field(rows[old + k], "rowId") = ToString(M + k)
                  /\ Field(rows[old + k], "topic") = resp.items[k].topic
                  /\ Field(rows[old + k], "prompt") = resp.items[k].prompt
                  /\ Field(rows[old + k], "title") = resp.items[k].title
                  /\ Field(rows[old + k], "used") = ""
                  /\ Field(rows[old + k], "log_id") = ""
                  /\ Field(rows[old + k], "timestamp") = ""
            /\ DistinctIds(rows)
            /\ resp.body.inserted = N

\* An insert of two rows after an earlier insert: it found a row that an
\* insert had appended and rows numbered downwards, and numbered its own
\* rows from the greatest rowId on.
C14_Witness ==
    /\ resp.op = "insert"
    /\ resp.status = 200
    /\ Len(resp.items) = 2
    /\ Len(resp.found) >= 1
    /\ Field(resp.found[Len(resp.found)], "prompt") = "a big dog"
    /\ Field(rows[Len(rows)], "rowId") = ToString(MaxId(resp.found) + 2)

\* ------------------------------------------------------------------ C15
\* C15: the rowIds of the table are distinct whatever the interleaving of the
\* insert handlers that run together.
C15_RowIdsStayDistinct == DistinctIds(rows)

\* A handler of insert_prompts has appended its rows.
Appended == resp.op = "insert" /\ resp.status = 200 /\ "items" \in DOMAIN resp

\* C15: an insert handler numbers its rows from the greatest rowId of the table
\* as it read it, M+1 .. M+N, whatever was appended while it slept in
\* acquire(); the rowIds stay distinct when the table it appends to is the
\* table it read, and need not when another handler appended in between.
C15_NumberedFromTheRead ==
    Appended =>
        /\ \A k \in 1..Len(resp.items) :
              Field(rows[Len(resp.found) + k], "rowId") = ToString(MaxId(resp.read) + k)
        /\ (resp.read = resp.found /\ DistinctIds(resp.found)) => DistinctIds(rows)

\* Two handlers read the same table: the one that slept in acquire() between
\* its read and its append has appended a rowId that the other had appended.
C15_Witness ==
    /\ Appended
    /\ resp.read # resp.found
    /\ DistinctIds(resp.found)
    /\ ~DistinctIds(rows)
    /\ Field(rows[Len(rows)], "rowId") = Field(rows[Len(resp.read) + 1], "rowId")

\* ------------------------------------------------------------------ C16
\* The columns (from 1) whose header is a keyword header.
KeywordPlaces == {c \in 1..Len(headers) : StartsWith(Lower(Strip(headers[c])), "keyword")}

\* insert has appended the rows of its payload.
Inserted == resp.op = "insert" /\ resp.status = 200

\* C16: under every header layout, each row that insert appends holds the
\* payload's keywordN in the column whose header is keywordN, for N in 1..10:
\* empty where the payload gives no keywordN; a payload keyword with no column
\* of its name is in no cell.
C16_KeywordsByName ==
    Inserted =>
        \A k \in 1..Len(resp.items) : \A c \in KeywordPlaces : \A N \in 1..10 :
            headers[c] = "keyword" \o ToString(N) =>
                rows[Len(resp.found) + k][c] = Strip(resp.items[k].kws[N])

\* What insert does: the i-th keyword column from the left takes the payload's
\* keyword i, whatever the column is called.
C16_KeywordsByPosition ==
    Inserted =>
        \A k \in 1..Len(resp.items) : \A c \in KeywordPlaces :
            LET i == Cardinality({d \in KeywordPlaces : d <= c})
            IN  i <= 10 => rows[Len(resp.found) + k][c] = Strip(resp.items[k].kws[i])

\* insert put the payload's keyword1 in the column keyword2.
C16_KeywordMisplaced ==
    /\ Inserted
    /\ \E c \in KeywordPlaces :
          /\ headers[c] = "keyword2"
          /\ rows[Len(rows)][c] = resp.items[1].kws[1]
          /\ resp.items[1].kws[1] # resp.items[1].kws[2]

\* ------------------------------------------------------------------ C17
\* The header columns a write path cannot do without: those get_sheet_metadata
\* requires, where the handler calls it, and those the handler checks itself.
RequiredBy(op) ==
    CASE op = "lock" -> {"rowId", "topic", "prompt", "used", "log_id"}
      [] op = "clear" -> {"rowId", "topic", "prompt", "used"}
      [] op = "markUsed" -> {"rowId", "topic", "prompt", "used", "log_id", "timestamp"}
      [] op = "insert" -> {"rowId", "topic", "prompt", "title", "used", "log_id", "timestamp"}

WritePaths == {"lock", "clear", "markUsed", "insert"}

\* The call was made on a header that lacks a column it requires.
MissingColumn ==
    /\ resp.op \in WritePaths
    /\ RequiredBy(resp.op) \ Range(headers) # {}

\* The call named a rowId that is not found: for lock in no unused row, for
\* clear in no row.
RowIdNotFound ==
    /\ resp.op \in {"lock", "clear"}
    /\ RequiredBy(resp.op) \subseteq Range(headers)
    /\ IF resp.op = "lock"
       THEN NoUnusedRow(resp.found, resp.rowId)
       ELSE Places(resp.found, resp.rowId) = {}

\* C17: a lock, clear, markUsed or insert made on a header that lacks a
\* required column, or naming a rowId that is not found, ends in an error
\* raised before any write: no batchUpdate and no append was issued and every
\* cell of the table, header row included, is as it was.
C17_ErrorsBeforeWrites ==
    (MissingColumn \/ RowIdNotFound) =>
        /\ resp.status = 500
        /\ resp.raised \in {404, 500}
        /\ resp.batches = 0
        /\ rows = resp.found
        /\ headers = resp.header

\* lock named an unused row of a sheet without the column log_id, on a store
\* that takes writes: it returned its error and wrote nothing.
C17_Witness ==
    /\ resp.op = "lock"
    /\ writable
    /\ "log_id" \notin Range(headers)
    /\ ~NoUnusedRow(resp.found, resp.rowId)
    /\ resp.status = 500
    /\ resp.batches = 0
    /\ rows = resp.found

\* ------------------------------------------------------------------ C18
\* The letters of the k-th column (from 1) of a spreadsheet, counted out: the
\* 26 one-letter names A..Z, then the 26 * 26 two-letter names AA..ZZ, then
\* the three-letter names from AAA on.
ColumnName(k) ==
    LET L(i) == CharAt(UpperAlpha, i + 1)
    IN  IF k <= 26 THEN L(k - 1)
        ELSE IF k <= 26 + 26 * 26
             THEN L((k - 27) \div 26) \o L((k - 27) % 26)
        ELSE L((k - 703) \div 676) \o L(((k - 703) \div 26) % 26) \o L((k - 703) % 26)

\* C18: col_idx_to_a1 gives the zero-based index i the name of the (i+1)-th
\* column, 0 -> A, 25 -> Z, 26 -> AA, 701 -> ZZ; the store reads the name back
\* as the index i, so the names of two indices differ.
C18_ColumnLetters ==
    resp.op = "col_idx_to_a1" =>
        /\ resp.letters = ColumnName(resp.col_idx + 1)
        /\ A1ColOf(resp.letters) = resp.col_idx
        /\ (resp.col_idx = 0 => resp.letters = "A")
        /\ (resp.col_idx = 25 => resp.letters = "Z")
        /\ (resp.col_idx = 26 => resp.letters = "AA")
        /\ (resp.col_idx = 701 => resp.letters = "ZZ")

\* col_idx_to_a1 was called with 701, the last two-letter column.
C18_Witness ==
    /\ resp.op = "col_idx_to_a1"
    /\ resp.col_idx = 701
    /\ resp.letters = "ZZ"

\* ------------------------------------------------------------------ C19
\* The non-empty entries of xs, each at its first occurrence only, in order.
FirstOccurrences(xs) ==
    LET first[n \in 0..Len(xs)] ==
            IF n = 0 THEN <<>>
            ELSE IF xs[n] # "" /\ \A j \in 1..(n - 1) : xs[j] # xs[n]
                 THEN Append(first[n - 1], xs[n])
                 ELSE first[n - 1]
    IN  first[Len(xs)]

\* The first n entries of xs, all of them when there are fewer.
Take(xs, n) == SubSeq(xs, 1, IF Len(xs) < n THEN Len(xs) ELSE n)

\* The values of the keyword cells of a row, from the leftmost keyword column on.
KeywordValues(row) ==
    LET upto[c \in 0..Len(headers)] ==
            IF c = 0 THEN <<>>
            ELSE IF StartsWith(Lower(Strip(headers[c])), "keyword")
                 THEN Append(upto[c - 1], Strip(row[c]))
                 ELSE upto[c - 1]
    IN  upto[Len(headers)]

\* The tokens of the prompt, lower-cased and stripped of punctuation.
PromptTokens(row) ==
    LET tokens == Split(Strip(Field(row, "prompt")))
    IN  [k \in 1..Len(tokens) |-> Lower(StripPunct(tokens[k]))]

\* C19: the keywords of every row of a returned batch are at most 10 and
\* without a repeat: first the non-empty values of the row's keyword cells in
\* the order of the columns; then, only when these are fewer than 10, the
\* prompt's tokens, lower-cased and stripped of punctuation, that are not yet
\* in the list, in their order, up to 10 in all.  The list is this function of
\* the row and the header.
C19_KeywordsOfTheBatch ==
    (resp.op = "get_next_prompt" /\ resp.status = 200) =>
        \A k \in 1..Len(resp.body.prompts) :
            \A kws \in {resp.body.prompts[k].keywords} :
            \A stored \in {FirstOccurrences(KeywordValues(resp.found[resp.body.block[k]]))} :
            \A tokens \in {PromptTokens(resp.found[resp.body.block[k]])} :
                /\ Len(kws) <= 10
                /\ \A i \in 1..Len(kws) : \A j \in 1..Len(kws) : i # j => kws[i] # kws[j]
                /\ Take(kws, Len(stored)) = Take(stored, 10)
                /\ IF Len(stored) >= 10
                   THEN kws = Take(stored, 10)
                   ELSE kws = Take(FirstOccurrences(stored \o tokens), 10)

\* A returned row with nine different keyword cells and a prompt of twelve
\* words: the tenth keyword is the prompt's first word and the others are left out.
C19_Witness ==
    /\ resp.op = "get_next_prompt"
    /\ resp.status = 200
    /\ \E k \in 1..Len(resp.body.prompts) :
          /\ Len(FirstOccurrences(KeywordValues(resp.found[resp.body.block[k]]))) = 9
          /\ Len(PromptTokens(resp.found[resp.body.block[k]])) = 12
          /\ Len(resp.body.prompts[k].keywords) = 10
          /\ resp.body.prompts[k].keywords[10] = "one"

\* ------------------------------------------------------------------ C20
\* The header has the columns lock, markUsed and clear work with.
MarkColumns == {"used", "log_id", "timestamp"}
HasMarkColumns == {"rowId", "topic", "prompt"} \cup MarkColumns \subseteq Range(headers)

\* The marks the call writes: used and log_id (the timestamp is a time of the call).
MarksOf(op) ==
    CASE op = "lock" -> <<"LOCKED", resp.log_id>>
      [] op = "markUsed" -> <<"yes", resp.log_id>>
      [] op = "clear" -> <<"", "">>

\* C20: under every header layout that has the required columns, wherever they
\* stand, lock, markUsed and clear leave every cell outside the columns used,
\* log_id and timestamp as it was, and a row they change holds the call's
\* used value in the column used, its log_id in the column log_id and its
\* time in the column timestamp.
C20_OnlyMarkCellsChange ==
    (resp.op \in {"lock", "markUsed", "clear"} /\ HasMarkColumns) =>
        /\ Len(rows) = Len(resp.found)
        /\ headers = resp.header
        /\ \A i \in 1..Len(rows) :
              /\ \A c \in 1..Len(headers) :
                    headers[c] \notin MarkColumns => rows[i][c] = resp.found[i][c]
              /\ rows[i] # resp.found[i] =>
                    /\ Field(rows[i], "used") = MarksOf(resp.op)[1]
                    /\ Field(rows[i], "log_id") = MarksOf(resp.op)[2]
                    /\ Field(rows[i], "timestamp") \in
                          (IF resp.op = "clear" THEN {""} ELSE CallTimes)

\* used, log_id and timestamp stand side by side in this order.
MarkColumnsAdjacent ==
    /\ HasMarkColumns
    /\ IdxMap(headers)["log_id"] = IdxMap(headers)["used"] + 1
    /\ IdxMap(headers)["timestamp"] = IdxMap(headers)["used"] + 2

\* What holds: the same under the layouts where used, log_id and timestamp
\* stand side by side in this order.
C20_AdjacentMarkCellsChange ==
    MarkColumnsAdjacent => C20_OnlyMarkCellsChange

\* lock and clear under a layout whose columns used, log_id, timestamp lie
\* beyond column Z: the range they build is no range and the call ends in 500.
C20_BeyondZRefused ==
    (resp.op \in {"lock", "clear"} /\ HasMarkColumns /\ IdxMap(headers)["used"] >= 26) =>
        (resp.status = 500 /\ rows = resp.found)

\* lock wrote its log_id into the keyword column that stands between used and log_id.
C20_LogIdInKeywordColumn ==
    /\ resp.op = "lock"
    /\ resp.status = 200
    /\ HasMarkColumns
    /\ \E i \in 1..Len(rows) : \E c \in 1..Len(headers) :
          /\ headers[c] = "keyword1"
          /\ resp.found[i][c] = ""
          /\ rows[i][c] = resp.log_id

\* ------------------------------------------------------------------ C21
\* A handler of the handlers running together has just returned.
Returned == resp.op \in {"get_next_prompt", "lock", "clear", "markUsed", "insert"}

\* C21: with lock, clear, markUsed and insert handlers running together and
\* sleeping in acquire(), a row whose used cell is "yes" keeps it: no run of a
\* handler takes a row from "yes" to anything else.
C21_UsedStaysUsed ==
    Returned =>
        \A i \in 1..Len(resp.found) :
            Field(resp.found[i], "used") = "yes" => Field(rows[i], "used") = "yes"

\* What holds: a handler takes a row from "yes" only when the row was not
\* "yes" yet in the rows it had read before its sleep.
C21_UsedStaysUsedSinceRead ==
    Returned =>
        \A i \in 1..Len(resp.found) :
            (Field(resp.found[i], "used") = "yes" /\ Field(rows[i], "used") # "yes") =>
                /\ resp.op \in {"lock", "clear"}
                /\ i <= Len(resp.read)
                /\ Field(resp.read[i], "used") # "yes"

\* A lock that read the row unused wrote LOCKED over the "yes" of a markUsed.
C21_LockOverwritesUsed ==
    /\ resp.op = "lock"
    /\ resp.status = 200
    /\ \E i \in 1..Len(resp.found) :
          /\ i <= Len(resp.read)
          /\ Field(resp.read[i], "used") = ""
          /\ Field(resp.found[i], "used") = "yes"
          /\ Field(rows[i], "used") = "LOCKED"

\* A clear that read the row unused blanked the "yes" of a markUsed.
C21_ClearBlanksUsed ==
    /\ resp.op = "clear"
    /\ resp.status = 200
    /\ \E i \in 1..Len(resp.found) :
          /\ i <= Len(resp.read)
          /\ Field(resp.read[i], "used") = ""
          /\ Field(resp.found[i], "used") = "yes"
          /\ Field(rows[i], "used") = ""

\* ------------------------------------------------------------------ C25
\* What get_unused_rows_by_topic() computes from the sheet as it is now, with
\* nothing cached.
GroupingNow ==
    UnusedRowsOf(Sheet, [headers |-> headers, idx_map |-> IdxMap(headers),
                         row_count |-> GridRowCount(Sheet)])

\* C25: in every state between the runs of the handlers, an entry under the
\* unused_rows key that has not expired is the grouping of the sheet as it is now.
C25_NoStaleGrouping ==
    (UnusedKey \in DOMAIN cache /\ Fresh(cache[UnusedKey], now)) =>
        <<cache[UnusedKey].data>> = GroupingNow

\* What holds: such an entry is the grouping of the sheet's rows as they are
\* now, up to a row_count the sheet has had: it lacks at most rows appended
\* since its writer fetched the metadata.
C25_GroupingUpToRowCount ==
    (UnusedKey \in DOMAIN cache /\ Fresh(cache[UnusedKey], now)) =>
        \E row_count \in 1..GridRowCount(Sheet) :
            <<cache[UnusedKey].data>> =
                UnusedRowsOf(Sheet, [headers |-> headers, idx_map |-> IdxMap(headers),
                                     row_count |-> row_count])

\* A lock that fetched the metadata before an insert's append and read the
\* sheet after it has cached a grouping without the appended row.
C25_GroupingLacksAppendedRow ==
    /\ UnusedKey \in DOMAIN cache
    /\ Fresh(cache[UnusedKey], now)
    /\ <<cache[UnusedKey].data>> # GroupingNow
    /\ \E t \in Tasks :
          /\ pending[t] # <<>>
          /\ pending[t][1].op = "lock"
          /\ pending[t][1].meta # <<>>
          /\ pending[t][1].meta[1].row_count < GridRowCount(Sheet)

\* ------------------------------------------------------------------ C22
\* The cycle is over: get_next_prompt returned an empty batch.
CycleOver == resp.op = "get_next_prompt" /\ resp.status = 200 /\ resp.batch = <<>>

\* C22: from a table of unused rows with topics and distinct rowIds, when the
\* cycle get_next_prompt, lock(first rowId of the batch), markUsed(the batch's
\* rowIds) ends with an empty batch, every data row has used = "yes".
C22_CycleUsesEveryRow ==
    CycleOver => \A i \in 1..Len(rows) : Field(rows[i], "used") = "yes"

\* Every topic of the table is one run of neighbouring rows.
TopicsInRuns(rs) ==
    \A i, j \in 1..Len(rs) :
        (i < j /\ Field(rs[i], "topic") = Field(rs[j], "topic")) =>
            \A k \in i..j : Field(rs[k], "topic") = Field(rs[i], "topic")

\* What holds: the same for the tables whose topics each form one run; and in
\* any table a row the cycle left is LOCKED, and of a topic met earlier.
C22_CycleUsesRowsInRuns ==
    CycleOver =>
        /\ TopicsInRuns(resp.start) => \A i \in 1..Len(rows) : Field(rows[i], "used") = "yes"
        /\ \A i \in 1..Len(rows) :
              Field(rows[i], "used") # "yes" =>
                  /\ Field(rows[i], "used") = "LOCKED"
                  /\ \E j \in 1..(i - 1) :
                        /\ Field(rows[j], "topic") = Field(rows[i], "topic")
                        /\ Field(rows[j], "used") = "yes"

\* The cycle ended and left a row LOCKED that was in no batch.
C22_RowLeftLocked ==
    /\ CycleOver
    /\ \E i \in 1..Len(rows) : Field(rows[i], "used") = "LOCKED"

\* ------------------------------------------------------------------ C23
\* lock was called with the rowId of a row of the batch get_next_prompt had
\* just returned.
LockOfBatch == resp.op = "lock" /\ "batch" \in DOMAIN resp

\* C23: lock of the rowId of any row of the batch that get_next_prompt has
\* just returned succeeds and marks that row LOCKED, whatever the row's topic.
C23_BatchRowsLockable ==
    LockOfBatch =>
        /\ resp.status = 200
        /\ \A i \in Places(rows, resp.rowId) : Field(rows[i], "used") = "LOCKED"

\* What holds: the same for the batches whose rows have a topic; for a batch
\* of rows without a topic lock answers 500 (a 404 raised inside) and writes nothing.
C23_TopicRowsLockable ==
    LockOfBatch =>
        IF Field(resp.found[resp.block[1]], "topic") # ""
        THEN /\ resp.status = 200
             /\ \A i \in Places(rows, resp.rowId) : Field(rows[i], "used") = "LOCKED"
        ELSE /\ resp.status = 500
             /\ resp.raised = 404
             /\ rows = resp.found

\* A batch of a row without a topic was returned and its lock was refused.
C23_TopiclessRowRefused ==
    /\ LockOfBatch
    /\ Field(resp.found[resp.block[1]], "topic") = ""
    /\ resp.status = 500

\* ------------------------------------------------------------------ C24
\* C24: with the clock advancing, every caller suspended in acquire()
\* eventually returns from it, whatever other callers do in the meantime.
C24_AcquireReturns ==
    \A t \in Tasks : (waiting[t] >= 0) ~> (waiting[t] = -1)

\* What holds: a suspended caller eventually gets its retry ...
C24_SleeperRetries ==
    \A t \in Tasks :
        (waiting[t] >= 0) ~> (resp.op = "acquire" /\ resp.task = t /\ resp.slept)

\* ... and a retry never finds the timestamp its wait was computed from:
\* the sleep ended at oldest + window + 1, and every timestamp kept at the
\* retry is later than the oldest of then.
C24_OldestHasLeftTheWindow ==
    [][\A t \in Tasks :
          (waiting[t] >= 0 /\ resp'.op = "acquire" /\ resp'.task = t) =>
              \A k \in 1..Len(requests') : requests'[k] > waiting[t] - window - 1]_vars

\* A caller is asleep again after a retry: others filled the budget while it slept.
C24_AsleepAgain ==
    /\ resp.op = "acquire"
    /\ resp.slept
    /\ ~resp.admitted
====
